---- MODULE Spec2Model ----
(***************************************************************************)
(* A model of the outbound e-mail engine github.com/aatuh/email/v2: the    *)
(* SMTP transport's Send/trySend retry loop (smtp/smtp.go), the backoff    *)
(* policy (options.go), the connection pool (conn_pool.go), the token      *)
(* bucket and the message helpers (types/types.go).                        *)
(*                                                                         *)
(* Strings are sequences of one-character strings, so that prefixing,      *)
(* trimming, lower-casing and substring search are computed as the code    *)
(* computes them.  Time is counted in ticks; a stored timestamp is kept as *)
(* the age time.Since(ts) of the value.                                    *)
(***************************************************************************)
EXTENDS Integers, Sequences, FiniteSets, TLC

\* ------------------------------------------------------------------ bounds

\* Largest attempt budget handed to ExponentialBackoff.
MaxAttempts == 2
\* Number of Send calls made on one mailer in a behaviour.
MaxSends == 1

\* ------------------------------------------------------------- string data

PfxAuth == <<"s","m","t","p"," ","a","u","t","h",":"," ">>
PfxMail == <<"s","m","t","p"," ","M","A","I","L"," ","F","R","O","M",":"," ">>
PfxRcptA == <<"s","m","t","p"," ","R","C","P","T"," ","T","O"," ">>
PfxRcptB == <<":"," ">>
PfxData == <<"s","m","t","p"," ","D","A","T","A",":"," ">>
PfxWrite == <<"s","m","t","p"," ","w","r","i","t","e",":"," ">>
PfxEndData == <<"s","m","t","p"," ","e","n","d"," ","d","a","t","a",":"," ">>
PfxDial == <<"s","m","t","p"," ","d","i","a","l",":"," ">>
TxtExhaustedA == <<"s","e","n","d"," ","a","t","t","e","m","p","t","s"," ","e","x","h","a","u","s","t","e","d"," ","a","f","t","e","r"," ">>
TxtExhaustedB == <<" ","t","r","i","e","s">>
TxtHookExhausted == <<"a","t","t","e","m","p","t","s"," ","e","x","h","a","u","s","t","e","d">>
TxtCanceled == <<"c","o","n","t","e","x","t"," ","c","a","n","c","e","l","e","d">>
TxtDeadline == <<"c","o","n","t","e","x","t"," ","d","e","a","d","l","i","n","e"," ","e","x","c","e","e","d","e","d">>
TxtMissingFrom == <<"m","i","s","s","i","n","g"," ","F","r","o","m">>
TxtNoRecipients == <<"n","o"," ","r","e","c","i","p","i","e","n","t","s">>
TxtNoBody == <<"n","o"," ","b","o","d","y"," ","o","r"," ","a","t","t","a","c","h","m","e","n","t","s">>
Txt421 == <<"4","2","1"," ","b","u","s","y">>
Txt550 == <<"5","5","0"," ","n","o"," ","s","u","c","h"," ","u","s","e","r">>
TxtRefused == <<"c","o","n","n","e","c","t","i","o","n"," ","r","e","f","u","s","e","d">>
TxtReset == <<"c","o","n","n","e","c","t","i","o","n"," ","r","e","s","e","t"," ","b","y"," ","p","e","e","r">>
TxtBoom == <<"b","o","o","m">>

Digits == <<"0","1","2","3","4","5","6","7","8","9">>

\* fmt's %d of a small non-negative integer.
RECURSIVE Itoa(_)
Itoa(n) == IF n < 10 THEN <<Digits[n + 1]>>
           ELSE Itoa(n \div 10) \o <<Digits[(n % 10) + 1]>>

\* strings.Contains(s, sub)
Contains(s, sub) ==
  \E k \in 0..(Len(s) - Len(sub)) :
     \A j \in 1..Len(sub) : s[k + j] = sub[j]

UpperCase == {"A","B","C","D","E","F","G","H","I","J","K","L","M",
              "N","O","P","Q","R","S","T","U","V","W","X","Y","Z"}
LowerOf == [c \in UpperCase |->
  CASE c = "A" -> "a" [] c = "B" -> "b" [] c = "C" -> "c" [] c = "D" -> "d"
    [] c = "E" -> "e" [] c = "F" -> "f" [] c = "G" -> "g" [] c = "H" -> "h"
    [] c = "I" -> "i" [] c = "J" -> "j" [] c = "K" -> "k" [] c = "L" -> "l"
    [] c = "M" -> "m" [] c = "N" -> "n" [] c = "O" -> "o" [] c = "P" -> "p"
    [] c = "Q" -> "q" [] c = "R" -> "r" [] c = "S" -> "s" [] c = "T" -> "t"
    [] c = "U" -> "u" [] c = "V" -> "v" [] c = "W" -> "w" [] c = "X" -> "x"
    [] c = "Y" -> "y" [] c = "Z" -> "z"]

\* strings.ToLower(s)
ToLower(s) == [k \in 1..Len(s) |-> IF s[k] \in UpperCase THEN LowerOf[s[k]] ELSE s[k]]

WhiteSpace == {" ", "\t", "\n", "\r"}

\* strings.TrimSpace(s)
RECURSIVE TrimLeft(_)
TrimLeft(s) == IF s # <<>> /\ Head(s) \in WhiteSpace THEN TrimLeft(Tail(s)) ELSE s
RECURSIVE TrimRight(_)
TrimRight(s) == IF s # <<>> /\ s[Len(s)] \in WhiteSpace
                THEN TrimRight(SubSeq(s, 1, Len(s) - 1)) ELSE s
TrimSpace(s) == TrimRight(TrimLeft(s))

\* ------------------------------------------------------------------ errors

\* An error value: its text and the texts of the errors it wraps (its
\* Unwrap chain, itself included).  The nil error has nil = TRUE.
NilErr == [nil |-> TRUE, text |-> <<>>, chain |-> {}]
NewErr(t) == [nil |-> FALSE, text |-> t, chain |-> {t}]
\* fmt.Errorf(prefix + "%w", e)
Wrapf(prefix, e) == [nil |-> FALSE, text |-> prefix \o e.text,
                     chain |-> {prefix \o e.text} \cup e.chain]
\* errors.Is(e, target)
ErrorsIs(e, target) == target.text \in e.chain

Canceled == NewErr(TxtCanceled)
DeadlineExceeded == NewErr(TxtDeadline)

TransientWords == <<
  <<"t","i","m","e","o","u","t">>,
  <<"t","e","m","p","o","r","a","r","i","l","y">>,
  <<"t","r","y"," ","a","g","a","i","n">>,
  <<"c","o","n","n","e","c","t","i","o","n"," ","r","e","s","e","t">>,
  <<"b","r","o","k","e","n"," ","p","i","p","e">> >>

isTransient(e) ==
  \/ ErrorsIs(e, DeadlineExceeded)
  \/ Contains(e.text, <<" ","4">>)
  \/ Contains(e.text, <<"4","x","x">>)
  \/ \E k \in 1..Len(TransientWords) : Contains(ToLower(e.text), TransientWords[k])

\* ----------------------------------------------------------------- backoff

RECURSIVE Pow2(_)
Pow2(n) == IF n <= 0 THEN 1 ELSE 2 * Pow2(n - 1)

\* The cap handed to ExponentialBackoff in the modelled configurations.
BackoffCap == 3

\* ExponentialBackoff(attempts, base, max, fullJitter): the expBackoff value.
ExponentialBackoff(attempts, base, max, fullJitter) ==
  [present |-> TRUE,
   attempts |-> IF attempts <= 0 THEN 1 ELSE attempts,
   base |-> base, max |-> max, fullJitter |-> fullJitter]

\* cfg.Backoff == nil: Send falls back to singleAttempt.
NoBackoff == [present |-> FALSE, attempts |-> 1, base |-> 0, max |-> 0,
              fullJitter |-> FALSE]

\* expBackoff.Next with the budget test off by one (i > attempts).
expBackoffNextOffByOne(b, i) ==
  IF i > b.attempts THEN {<<0, FALSE>>}
  ELSE IF i = 0 THEN {<<0, TRUE>>}
  ELSE {<<1, TRUE>>}

\* time.Duration is a signed integer of DurationBits bits (64 in the
\* program; the model keeps the arithmetic and scales the width down).
DurationBits == 8
MaxDuration == Pow2(DurationBits - 1) - 1
MinDuration == -Pow2(DurationBits - 1)

\* Signed integer arithmetic wraps around.
Wrap(x) == ((x - MinDuration) % Pow2(DurationBits)) + MinDuration

\* time.Duration(f) for a float f: the value when it is representable, else
\* implementation-dependent (amd64 yields the minimum, arm64 saturates).
ToDuration(x) ==
  IF MinDuration <= x /\ x <= MaxDuration THEN {x} ELSE {MinDuration, MaxDuration}

\* Go's integer division truncates towards zero.
TruncDiv(a, b) == IF a >= 0 THEN a \div b ELSE -((-a) \div b)

\* rand.Int63n(n): a value of [0, n); it panics when n <= 0 (no value).
Int63n(n) == IF n <= 0 THEN {} ELSE 0..(n - 1)

\* Lines 149-153 of expBackoff.Next: the capped exponential delay d for
\* attempt i >= 1, one value per outcome of the conversion.
expDelay(b, i) ==
  { IF b.max > 0 /\ raw > b.max THEN b.max ELSE raw
    : raw \in ToDuration(b.base * Pow2(i - 1)) }

\* The bound handed to Int63n for the delay dd.
JitterBound(b, dd) ==
  IF b.fullJitter THEN Wrap(dd + 1) ELSE Wrap(TruncDiv(dd, 2) + 1)

\* expBackoff.Next(i): the set of (d, ok) results the random source allows.
expBackoffNext(b, i) ==
  IF i >= b.attempts THEN {<<0, FALSE>>}
  ELSE IF i = 0 THEN {<<0, TRUE>>}
  ELSE UNION {
    IF b.fullJitter
    THEN {<<j, TRUE>> : j \in Int63n(JitterBound(b, dd))}
    ELSE {<<Wrap(TruncDiv(dd, 2) + j), TRUE>> : j \in Int63n(JitterBound(b, dd))}
    : dd \in expDelay(b, i) }

\* expBackoff.Next(i) can panic in Int63n instead of returning.
expBackoffPanics(b, i) ==
  /\ i < b.attempts /\ i # 0
  /\ \E dd \in expDelay(b, i) : JitterBound(b, dd) <= 0

\* singleAttempt.Next(i)
singleAttemptNext(i) == IF i = 0 THEN {<<0, TRUE>>} ELSE {<<0, FALSE>>}

\* bo.Next(attempt) for the schedule Send chose.
BackoffNext(b, i) == IF b.present THEN expBackoffNext(b, i) ELSE singleAttemptNext(i)

\* The number of tries the chosen schedule allows.
Budget(b) == IF b.present THEN b.attempts ELSE 1

\* ----------------------------------------------------------------- message

\* Message.Validate without the test for a body.
ValidateNoBody(m) ==
  IF m.From = <<>> THEN NewErr(TxtMissingFrom)
  ELSE IF Len(m.To) = 0 /\ Len(m.Cc) = 0 /\ Len(m.Bcc) = 0 THEN NewErr(TxtNoRecipients)
  ELSE NilErr

\* Message.Validate
Validate(m) ==
  IF m.From = <<>> THEN NewErr(TxtMissingFrom)
  ELSE IF Len(m.To) = 0 /\ Len(m.Cc) = 0 /\ Len(m.Bcc) = 0 THEN NewErr(TxtNoRecipients)
  ELSE IF Len(m.Plain) = 0 /\ Len(m.HTML) = 0 /\ Len(m.Attach) = 0
       THEN NewErr(TxtNoBody)
  ELSE NilErr

\* The closure add of Message.RecipientList: the trimmed, non-blank mailboxes.
RECURSIVE AddRecipients(_)
AddRecipients(xs) ==
  IF xs = <<>> THEN <<>>
  ELSE LET s == TrimSpace(Head(xs))
       IN (IF s # <<>> THEN <<s>> ELSE <<>>) \o AddRecipients(Tail(xs))

\* RecipientList collecting Bcc ahead of To and Cc.
RecipientListBccFirst(m) ==
  AddRecipients(m.Bcc) \o AddRecipients(m.To) \o AddRecipients(m.Cc)

\* Message.RecipientList
RecipientList(m) == AddRecipients(m.To) \o AddRecipients(m.Cc) \o AddRecipients(m.Bcc)

\* -------------------------------------------------------------- MIME build

\* Body bytes are numbers 0..255; the ones the encoder tells apart.
ByteCR == 13
ByteLF == 10
ByteEq == 61
ByteSP == 32
ByteTilde == 126
ByteZero == 48
ByteA == 65

\* "hi"
BodyHi == <<104, 105>>

\* The column limit of writeQuotedPrintable.
QPLimit == 75

\* hex[n] of "0123456789ABCDEF", as a byte.
HexByte(n) == IF n < 10 THEN ByteZero + n ELSE ByteA + (n - 10)

\* The bytes writeQuotedPrintable puts out for the byte c: itself, or =XX.
qpUnit(c) ==
  IF c = ByteEq \/ c < ByteSP \/ c > ByteTilde
  THEN <<ByteEq, HexByte(c \div 16), HexByte(c % 16)>>
  ELSE <<c>>

\* The loop of writeQuotedPrintable breaking the line by the column alone,
\* whatever the width of the next unit.
RECURSIVE qpLoopByColumn(_, _, _, _)
qpLoopByColumn(b, i, col, w) ==
  IF i > Len(b) THEN w \o <<ByteCR, ByteLF>>
  ELSE IF b[i] = ByteCR THEN qpLoopByColumn(b, i + 1, col, w)
  ELSE IF b[i] = ByteLF THEN qpLoopByColumn(b, i + 1, 0, w \o <<ByteCR, ByteLF>>)
  ELSE LET o == qpUnit(b[i])
       IN IF col + 1 > QPLimit
          THEN qpLoopByColumn(b, i + 1, Len(o), w \o <<ByteEq, ByteCR, ByteLF>> \o o)
          ELSE qpLoopByColumn(b, i + 1, col + Len(o), w \o o)

\* The loop of writeQuotedPrintable from byte i on, col columns into the
\* line, w written so far.
RECURSIVE qpLoop(_, _, _, _)
qpLoop(b, i, col, w) ==
  IF i > Len(b) THEN w \o <<ByteCR, ByteLF>>
  ELSE IF b[i] = ByteCR THEN qpLoop(b, i + 1, col, w)
  ELSE IF b[i] = ByteLF THEN qpLoop(b, i + 1, 0, w \o <<ByteCR, ByteLF>>)
  ELSE LET o == qpUnit(b[i])
       IN IF col + Len(o) > QPLimit
          THEN qpLoop(b, i + 1, Len(o), w \o <<ByteEq, ByteCR, ByteLF>> \o o)
          ELSE qpLoop(b, i + 1, col + Len(o), w \o o)

\* writeQuotedPrintable(w, b): what it writes.
writeQuotedPrintable(b) == qpLoop(b, 0 + 1, 0, <<>>)

\* A header map with no entry.
NoHeaders == <<>>

\* Header maps live on a heap, a sequence of maps; a map value (a Go map) is
\* the index of its contents there.  h[key] = val on the map r:
SetKey(hp, r, key, val) ==
  [hp EXCEPT ![r] = [k \in (DOMAIN @) \cup {key} |->
                       IF k = key THEN val ELSE @[k]]]

\* setHeader(h, key, val): empty values are not stored.
setHeader(hp, r, key, val) == IF val = <<>> THEN hp ELSE SetKey(hp, r, key, val)

\* ensureListUnsub(h, listUnsub)
ensureListUnsub(hp, r, listUnsub) ==
  IF listUnsub = <<>> THEN hp ELSE setHeader(hp, r, "List-Unsubscribe", listUnsub)

\* Message.CloneHeaders handing back the message's own map.
CloneHeadersShared(hp, r) == [heap |-> hp, ref |-> r]

\* Message.CloneHeaders: a new map with the entries of the map r.
CloneHeaders(hp, r) == [heap |-> Append(hp, hp[r]), ref |-> Len(hp) + 1]

\* strings.Join(xs, sep)
RECURSIVE Join(_, _)
Join(xs, sep) ==
  IF xs = <<>> THEN <<>>
  ELSE IF Len(xs) = 1 THEN xs[1]
  ELSE xs[1] \o sep \o Join(Tail(xs), sep)

\* joinAddrs(xs): the addresses carry no display name, String() is the mailbox.
joinAddrs(xs) == Join(xs, <<",", " ">>)

\* sanitizeHeader(s): CR and LF are removed.
sanitizeHeader(t) == SelectSeq(t, LAMBDA ch : ch \notin {"\r", "\n"})

\* strings.LastIndex(s, "@"), counted from 1; 0 when there is none.
LastAt(t) ==
  IF \E k \in DOMAIN t : t[k] = "@"
  THEN CHOOSE k \in DOMAIN t : t[k] = "@" /\ \A j \in DOMAIN t : t[j] = "@" => j <= k
  ELSE 0

\* What time.Now() and rand.Read give one build: the Date header and the
\* front of the Message-ID.
DateNow == <<"T","u","e",","," ","0","3"," ","N","o","v"," ","2","0","2","6"," ","2","3",":","0","0",":","0","0"," ","+","0","0","0","0">>
IDNow == <<"1","7","a","0","c","2">>

\* genMessageID(m)
genMessageID(m) ==
  LET k == LastAt(m.From)
      host == IF k = 0 THEN <<"l","o","c","a","l","h","o","s","t">> ELSE SubSeq(m.From, k + 1, Len(m.From))
  IN <<"<">> \o IDNow \o <<"@">> \o host \o <<">">>

TxtMimeVersion == <<"1",".","0">>
TxtQP == <<"q","u","o","t","e","d","-","p","r","i","n","t","a","b","l","e">>
CtPlain == <<"t","e","x","t","/","p","l","a","i","n",";"," ","c","h","a","r","s","e","t","=","\"","U","T","F","-","8","\"">>
CtHTML == <<"t","e","x","t","/","h","t","m","l",";"," ","c","h","a","r","s","e","t","=","\"","U","T","F","-","8","\"">>
CtMixed == <<"m","u","l","t","i","p","a","r","t","/","m","i","x","e","d",";"," ","b","o","u","n","d","a","r","y","=","\"","b","1","\"">>
CtAlternative == <<"m","u","l","t","i","p","a","r","t","/","a","l","t","e","r","n","a","t","i","v","e",";"," ","b","o","u","n","d","a","r","y","=","\"","b","2","\"">>
CtOctets == <<"a","p","p","l","i","c","a","t","i","o","n","/","o","c","t","e","t","-","s","t","r","e","a","m">>
TxtDkimIncomplete == <<"d","k","i","m",":"," ","i","n","c","o","m","p","l","e","t","e"," ","c","o","n","f","i","g">>
PfxDkimKey == <<"d","k","i","m",":"," ","p","a","r","s","e"," ","k","e","y",":"," ">>
TxtNoPEM == <<"n","o"," ","P","E","M"," ","b","l","o","c","k"," ","f","o","u","n","d">>
TxtSig == <<"v","=","1",";"," ","b","=","s","i","g">>

\* A body part: its Content-Type, transfer encoding and disposition, the
\* bytes written after its header, and for a multipart its parts in order.
Part(ctype, cte, disp, body, parts) ==
  [ctype |-> ctype, cte |-> cte, disp |-> disp, body |-> body, parts |-> parts]

\* writeTextPart / writeHTMLPart
writeTextPart(body) == Part(CtPlain, "quoted-printable", "", writeQuotedPrintable(body), <<>>)
writeHTMLPart(body) == Part(CtHTML, "quoted-printable", "", writeQuotedPrintable(body), <<>>)

\* writeAttachment: the part of one attachment; body is what a.Reader gives,
\* which goes out base64-encoded.
writeAttachment(a) ==
  Part(IF a.ContentType = <<>> THEN CtOctets ELSE a.ContentType, "base64",
       IF a.ContentID # <<>> THEN "inline" ELSE "attachment", a.Reader, <<>>)

\* The nested multipart/alternative of a multipart/mixed body.
altPart(m) ==
  Part(CtAlternative, "", "",  <<>>,
       (IF Len(m.Plain) > 0 THEN <<writeTextPart(m.Plain)>> ELSE <<>>)
       \o (IF Len(m.HTML) > 0 THEN <<writeHTMLPart(m.HTML)>> ELSE <<>>))

\* The switch of BuildMIME over the body shape with the attachment test last.
buildBodyAttachLast(m) ==
  IF Len(m.Plain) > 0 /\ Len(m.HTML) > 0
  THEN Part(CtAlternative, "", "", <<>>,
            <<writeTextPart(m.Plain), writeHTMLPart(m.HTML)>>)
  ELSE IF Len(m.HTML) > 0
  THEN Part(CtHTML, "quoted-printable", "", writeQuotedPrintable(m.HTML), <<>>)
  ELSE IF Len(m.Plain) > 0
  THEN Part(CtPlain, "quoted-printable", "", writeQuotedPrintable(m.Plain), <<>>)
  ELSE Part(CtMixed, "", "", <<>>,
            [k \in 1..Len(m.Attach) |-> writeAttachment(m.Attach[k])])

\* The switch of BuildMIME over hasAttach, hasPlain, hasHTML: the body
\* written to bodyBuf, as the part it makes up.
buildBody(m) ==
  IF Len(m.Attach) > 0
  THEN Part(CtMixed, "", "", <<>>,
            (IF Len(m.Plain) > 0 \/ Len(m.HTML) > 0 THEN <<altPart(m)>> ELSE <<>>)
            \o [k \in 1..Len(m.Attach) |-> writeAttachment(m.Attach[k])])
  ELSE IF Len(m.Plain) > 0 /\ Len(m.HTML) > 0
  THEN Part(CtAlternative, "", "", <<>>,
            <<writeTextPart(m.Plain), writeHTMLPart(m.HTML)>>)
  ELSE IF Len(m.HTML) > 0
  THEN Part(CtHTML, "quoted-printable", "", writeQuotedPrintable(m.HTML), <<>>)
  ELSE Part(CtPlain, "quoted-printable", "", writeQuotedPrintable(m.Plain), <<>>)

\* The header assignments of that switch on the map r.
bodyHeaders(hp, r, top) ==
  IF top.cte = "" THEN SetKey(hp, r, "Content-Type", top.ctype)
  ELSE SetKey(SetKey(hp, r, "Content-Type", top.ctype),
              r, "Content-Transfer-Encoding", TxtQP)

\* No DKIM configuration (dkim == nil).
NoDKIM == [nil |-> TRUE, Domain |-> <<>>, Selector |-> <<>>, KeyPEM |-> ""]

\* BuildDKIMSignature: the signature value, or why there is none.  KeyPEM is
\* "" (empty), "rsa" (a key that parses) or "junk" (no PEM block).
BuildDKIMSignature(cfg) ==
  IF cfg.Domain = <<>> \/ cfg.Selector = <<>> \/ cfg.KeyPEM = ""
  THEN [sig |-> <<>>, err |-> NewErr(TxtDkimIncomplete)]
  ELSE IF cfg.KeyPEM # "rsa"
  THEN [sig |-> <<>>, err |-> Wrapf(PfxDkimKey, NewErr(TxtNoPEM))]
  ELSE [sig |-> TxtSig, err |-> NilErr]

\* The nil payload.
NoPayload == [nil |-> TRUE, headers |-> <<>>, body |-> <<>>]

\* Send's raw before BuildMIME has returned.
NoRaw == [payload |-> NoPayload, at |-> 0]

\* The header map BuildMIME fills before the body is built: the clone of the
\* caller's map with the standard fields set.
buildHeaders(m, listUnsub, clone) ==
  LET r  == clone.ref
      h1 == ensureListUnsub(clone.heap, r, listUnsub)
      h2 == setHeader(h1, r, "From", m.From)
      h3 == IF Len(m.To) > 0 THEN setHeader(h2, r, "To", joinAddrs(m.To)) ELSE h2
      h4 == IF Len(m.Cc) > 0 THEN setHeader(h3, r, "Cc", joinAddrs(m.Cc)) ELSE h3
      h5 == setHeader(h4, r, "Subject", sanitizeHeader(m.Subject))
      h6 == setHeader(h5, r, "Date", DateNow)
      h7 == setHeader(h6, r, "MIME-Version", TxtMimeVersion)
      h8 == IF m.TrackingID # <<>>
            THEN setHeader(h7, r, "X-Tracking-ID", sanitizeHeader(m.TrackingID))
            ELSE h7
  IN IF "Message-ID" \in DOMAIN h8[r] THEN h8
     ELSE setHeader(h8, r, "Message-ID", genMessageID(m))

\* internal.BuildMIME(ctx, msg, listUnsub, dkim, hooks): the payload (the
\* header map written out and the body) and the error it returns, the hook
\* calls it makes (size is the expression passed as the byte count), and the
\* caller's header map (heap[1]) as the call leaves it.
BuildMIME(m, listUnsub, dkim, hooks) ==
  LET e == Validate(m)
      start == IF hooks THEN <<[ev |-> "buildStart", size |-> "", err |-> NilErr]>>
               ELSE <<>>
      clone == CloneHeaders(<<m.Headers>>, 1)
      r == clone.ref
      top == buildBody(m)
      hb == bodyHeaders(buildHeaders(m, listUnsub, clone), r, top)
      sg == BuildDKIMSignature(dkim)
  IN IF ~e.nil
     THEN [raw |-> NoPayload, err |-> e, hooks |-> <<>>, Headers |-> m.Headers]
     ELSE IF ~dkim.nil /\ ~sg.err.nil
     THEN [raw |-> NoPayload, err |-> sg.err,
           hooks |-> start \o (IF hooks
                               THEN <<[ev |-> "buildDone", size |-> "0",
                                       err |-> sg.err]>>
                               ELSE <<>>),
           Headers |-> hb[1]]
     ELSE LET hd == IF dkim.nil THEN hb ELSE setHeader(hb, r, "DKIM-Signature", sg.sig)
          IN [raw |-> [nil |-> FALSE, headers |-> hd[r], body |-> top],
              err |-> NilErr,
              hooks |-> start \o (IF hooks
                                  THEN <<[ev |-> "buildDone", size |-> "out.Len()",
                                          err |-> NilErr]>>
                                  ELSE <<>>),
              Headers |-> hd[1]]

CRLF == <<"\r", "\n">>

\* The column limit of writeFoldedHeader.
FoldLimit == 78

\* strings.Fields(s): the maximal stretches of s without white space.
WordStarts(t) ==
  {i \in DOMAIN t : t[i] \notin WhiteSpace /\ (i = 1 \/ t[i - 1] \in WhiteSpace)}
WordEnd(t, i) ==
  CHOOSE j \in i..Len(t) :
    /\ \A k \in i..j : t[k] \notin WhiteSpace
    /\ (j = Len(t) \/ t[j + 1] \in WhiteSpace)
Fields(t) ==
  LET st == WordStarts(t)
      nth(n) == CHOOSE i \in st : Cardinality({x \in st : x < i}) = n - 1
  IN [n \in 1..Cardinality(st) |-> SubSeq(t, nth(n), WordEnd(t, nth(n)))]

\* The loop of writeFoldedHeader over the words from the k-th on: curr is
\* the line being filled, w what has been written.
RECURSIVE foldWords(_, _, _, _)
foldWords(words, k, curr, w) ==
  IF k > Len(words) THEN w \o curr \o CRLF
  ELSE IF Len(curr) + 1 + Len(words[k]) > FoldLimit
       THEN foldWords(words, k + 1, <<" ">> \o words[k], w \o curr \o CRLF)
       ELSE foldWords(words, k + 1, curr \o <<" ">> \o words[k], w)

\* writeFoldedHeader(w, key, val): what it writes.
writeFoldedHeader(key, val) ==
  LET line == key \o <<":", " ">> \o val
  IN IF Len(line) <= FoldLimit THEN line \o CRLF
     ELSE foldWords(Fields(val), 1, key \o <<":">>, <<>>)

\* writeHeaders(w, h) when range yields the entries of h in the order es.
RECURSIVE writeHeaders(_)
writeHeaders(es) ==
  IF es = <<>> THEN CRLF
  ELSE writeFoldedHeader(es[1].key, es[1].val) \o writeHeaders(Tail(es))

\* ---------------------------------------------------------- connection pool

Min(a, b) == IF a < b THEN a ELSE b

\* The defaults NewConnPool substitutes for non-positive arguments
\* (IdleTTL in seconds).
DefaultMaxIdle == 2
DefaultIdleTTL == 30

\* NewConnPool(maxIdle, idleTTL, newFn, closeFn, isHealthyFn).  New is "nil"
\* (no create function), "ok" (a create function that dials, as the one
\* NewSMTP passes) or "fail" (a create function that returns an error).
\* idle is the list of poolItems, front first; age is time.Since(it.ts).
NewConnPool(maxIdle, idleTTL, newFn, closeFn, isHealthyFn) ==
  [present |-> TRUE,
   MaxIdle |-> IF maxIdle <= 0 THEN DefaultMaxIdle ELSE maxIdle,
   IdleTTL |-> IF idleTTL <= 0 THEN DefaultIdleTTL ELSE idleTTL,
   New |-> newFn, Close |-> closeFn, IsHealthy |-> isHealthyFn,
   idle |-> <<>>, inUse |-> 0]

\* A nil *ConnPool.
NilPool == [present |-> FALSE, MaxIdle |-> 0, IdleTTL |-> 0, New |-> "nil",
            Close |-> FALSE, IsHealthy |-> FALSE, idle |-> <<>>, inUse |-> 0]

\* The close callback NewSMTP passes: QUIT on the connection.
CloseConn(cs, c) == [cs EXCEPT ![c].closed = TRUE]

RECURSIVE CloseEach(_, _)
CloseEach(cs, ids) ==
  IF ids = <<>> THEN cs ELSE CloseEach(CloseConn(cs, Head(ids)), Tail(ids))

\* The reuse loop taking entries from the front, the least recently
\* returned first.
RECURSIVE PopIdleFront(_, _, _)
PopIdleFront(p, idle, cs) ==
  IF idle = <<>> THEN [conn |-> 0, idle |-> <<>>, closed |-> <<>>]
  ELSE LET it   == Head(idle)
           rest == Tail(idle)
       IN IF it.age <= p.IdleTTL /\ (~p.IsHealthy \/ ~cs[it.conn].dead)
          THEN [conn |-> it.conn, idle |-> rest, closed |-> <<>>]
          ELSE LET r == PopIdleFront(p, rest, cs)
               IN [r EXCEPT !.closed =
                     (IF p.Close /\ it.conn # 0 THEN <<it.conn>> ELSE <<>>) \o @]

\* The reuse loop of ConnPool.Get: pop from the back until an entry is within
\* the TTL and healthy (NOOP succeeds unless the server dropped the
\* connection).  conn = 0 stands for "none found".
RECURSIVE PopIdle(_, _, _)
PopIdle(p, idle, cs) ==
  IF idle = <<>> THEN [conn |-> 0, idle |-> <<>>, closed |-> <<>>]
  ELSE LET it   == idle[Len(idle)]
           rest == SubSeq(idle, 1, Len(idle) - 1)
       IN IF it.age <= p.IdleTTL /\ (~p.IsHealthy \/ ~cs[it.conn].dead)
          THEN [conn |-> it.conn, idle |-> rest, closed |-> <<>>]
          ELSE LET r == PopIdle(p, rest, cs)
               IN [r EXCEPT !.closed =
                     (IF p.Close /\ it.conn # 0 THEN <<it.conn>> ELSE <<>>) \o @]

\* A connection as newConn returns it.
FreshConn == [closed |-> FALSE, dead |-> FALSE]

\* ConnPool.Get counting a connection as in use before New has succeeded.
PoolGetCountsFirst(p, cs, created) ==
  LET r   == PopIdle(p, p.idle, cs)
      cs1 == CloseEach(cs, r.closed)
      p1  == [p EXCEPT !.idle = r.idle, !.inUse = @ + 1]
  IN IF r.conn # 0
     THEN [conn |-> r.conn, err |-> NilErr, pool |-> p1, conns |-> cs1]
     ELSE IF p.New = "nil"
     THEN [conn |-> 0, err |-> NilErr, pool |-> p1, conns |-> cs1]
     ELSE IF ~created.nil
     THEN [conn |-> 0, err |-> created, pool |-> p1, conns |-> cs1]
     ELSE [conn |-> Len(cs1) + 1, err |-> NilErr, pool |-> p1,
           conns |-> Append(cs1, FreshConn)]

\* ConnPool.Get.  created is the result of the create function, should it be
\* called: the nil error (a new connection is appended to cs) or its error.
\* The result is the returned connection (0 = nil), the returned error, and
\* the pool and the connections afterwards.
PoolGet(p, cs, created) ==
  LET r   == PopIdle(p, p.idle, cs)
      cs1 == CloseEach(cs, r.closed)
      p1  == [p EXCEPT !.idle = r.idle]
  IN IF r.conn # 0
     THEN [conn |-> r.conn, err |-> NilErr,
           pool |-> [p1 EXCEPT !.inUse = @ + 1], conns |-> cs1]
     ELSE IF p.New = "nil"
     THEN [conn |-> 0, err |-> NilErr, pool |-> p1, conns |-> cs1]
     ELSE IF ~created.nil
     THEN [conn |-> 0, err |-> created, pool |-> p1, conns |-> cs1]
     ELSE [conn |-> Len(cs1) + 1, err |-> NilErr,
           pool |-> [p1 EXCEPT !.inUse = @ + 1],
           conns |-> Append(cs1, FreshConn)]

\* ConnPool.Put that closes the connection at capacity and stores it all
\* the same.
PoolPutClosesAndStores(p, cs, c) ==
  IF c = 0 THEN [pool |-> p, conns |-> cs]
  ELSE [pool |-> [p EXCEPT !.inUse = @ - 1,
                           !.idle = Append(@, [conn |-> c, age |-> 0])],
        conns |-> IF Len(p.idle) >= p.MaxIdle /\ p.Close
                  THEN CloseConn(cs, c) ELSE cs]

\* ConnPool.Put with the capacity test off by one (>).
PoolPutOverfull(p, cs, c) ==
  IF c = 0 THEN [pool |-> p, conns |-> cs]
  ELSE IF Len(p.idle) > p.MaxIdle
  THEN [pool |-> [p EXCEPT !.inUse = @ - 1],
        conns |-> IF p.Close THEN CloseConn(cs, c) ELSE cs]
  ELSE [pool |-> [p EXCEPT !.inUse = @ - 1,
                           !.idle = Append(@, [conn |-> c, age |-> 0])],
        conns |-> cs]

\* ConnPool.Put
PoolPut(p, cs, c) ==
  IF c = 0 THEN [pool |-> p, conns |-> cs]
  ELSE IF Len(p.idle) >= p.MaxIdle
  THEN [pool |-> [p EXCEPT !.inUse = @ - 1],
        conns |-> IF p.Close THEN CloseConn(cs, c) ELSE cs]
  ELSE [pool |-> [p EXCEPT !.inUse = @ - 1,
                           !.idle = Append(@, [conn |-> c, age |-> 0])],
        conns |-> cs]

\* ------------------------------------------------------------------- state

VARIABLES
  smtpCfg,      \* SMTP.cfg: Timeout, PoolMaxIdle, PoolIdleTTL; Auth = credentials
                \* are configured and the server advertises AUTH
  mpool,        \* SMTP.pool, the pool NewSMTP builds
  sendCfg,      \* the SendConfig the options of a Send produce: Backoff, Hooks
                \* (Rate is read once, when Send starts; Pool is the variable pool)
  pool,         \* the pool handed over by WithPool (cfg.Pool); present = non-nil
  bucket,       \* the TokenBucket of WithRateLimit: rate, burst, tokens, and
                \* slept = the time the running Wait has just slept
  msg,          \* the Message passed to Send
  conns,        \* every connection dialled so far, by index
  ctx,          \* the context of the running Send: hasDeadline, err ("none" = live)
  pc,           \* where the running Send stands
  attempt,      \* Send's attempt counter
  d,            \* the backoff delay Send is waiting out
  err,          \* Send's err
  result,       \* the value Send returned
  conn,         \* trySend's conn (0 = nil)
  own,          \* trySend dialled conn itself (the Quit defer is registered)
  rcpt,         \* number of recipients of RecipientList() already issued
  timedOut,     \* more than cfg.Timeout has passed since the attempt connected
  sends,        \* number of Send calls started
  tries,        \* the attempt indices the running Send called trySend with
  log,          \* the hook invocations of the running Send
  wire,         \* the commands the running attempt issued, in order
  att,          \* the running attempt's pool and connection calls
  raw,          \* Send's raw, the payload every trySend is called with, and
                \* the number of attempts begun when BuildMIME made it
  bo,           \* a Backoff under test on its own: the expBackoff fields
  boOut,        \* the last call bo.Next(i): i, and d, ok or the panic
  mu,           \* ConnPool.mu of pool: the caller holding it (0 = unlocked)
  callers,      \* the goroutines using pool directly: what each one holds
                \* and the call it is in
  closes,       \* how often pool handed each connection to its Close function
  tbMu,         \* TokenBucket.mu of bucket: the caller holding it (0 = unlocked)
  waiters,      \* the goroutines calling bucket.Wait(): where each one stands
  now,          \* the clock, in ticks since bucket was constructed
  last,         \* TokenBucket.last
  served,       \* the Wait calls that have returned, in order of return
  arg,          \* the argument of a function called on its own
  out           \* what that call returned

\* The state only the component specifications (BackoffSpec, PoolSpec,
\* BucketSpec) move; no step of Send touches it.
boVars     == <<bo, boOut>>
cpVars     == <<mu, callers, closes>>
tbVars     == <<tbMu, waiters, now, last, served>>
fnVars     == <<arg, out>>
libVars    == <<boVars, cpVars, tbVars, fnVars>>

cfgVars    == <<smtpCfg, mpool, sendCfg, msg, libVars>>
sharedVars == <<pool, bucket, conns>>
sendVars   == <<ctx, pc, attempt, d, err, result, sends, tries, log>>
tryVars    == <<conn, own, rcpt, timedOut, wire, att, raw>>
vars       == <<cfgVars, sharedVars, sendVars, tryVars>>

\* ------------------------------------------------------------------ inputs

MailA == <<"a","@","x">>
MailB == <<" ","b","@","y">>
MailC == <<"c","@","z"," ">>
Blank == <<" ">>

\* The messages a behaviour sends: three lists with a blank entry and
\* untrimmed mailboxes; a single blank recipient; no recipient at all.
Messages == {
  [From |-> MailA, To |-> <<MailA>>, Cc |-> <<Blank, MailB>>, Bcc |-> <<MailC>>, Plain |-> BodyHi, HTML |-> <<>>, Attach |-> <<>>, Headers |-> NoHeaders,
   Subject |-> <<>>, TrackingID |-> <<>>],
  [From |-> MailA, To |-> <<Blank>>, Cc |-> <<>>, Bcc |-> <<>>, Plain |-> BodyHi, HTML |-> <<>>, Attach |-> <<>>, Headers |-> NoHeaders,
   Subject |-> <<>>, TrackingID |-> <<>>],
  [From |-> MailA, To |-> <<>>, Cc |-> <<>>, Bcc |-> <<>>, Plain |-> BodyHi, HTML |-> <<>>, Attach |-> <<>>, Headers |-> NoHeaders,
   Subject |-> <<>>, TrackingID |-> <<>>] }

Backoffs ==
  {NoBackoff}
  \cup {ExponentialBackoff(n, 1, BackoffCap, TRUE) : n \in 0..MaxAttempts}
  \cup {ExponentialBackoff(MaxAttempts, 2, BackoffCap, FALSE)}

\* The pools a caller passes with WithPool.
Pools == {NilPool} \cup {NewConnPool(1, 1, n, TRUE, TRUE) : n \in {"nil", "ok", "fail"}}

\* What the server answers to a command: acceptance, a 4xx or a 5xx reply
\* (textproto.Error prints "<code> <message>").
Replies == {NilErr, NewErr(Txt421), NewErr(Txt550)}

\* net's dial timeout error: errors.Is(err, context.DeadlineExceeded) holds.
DialTimeout == [nil |-> FALSE,
                text |-> <<"i","/","o"," ","t","i","m","e","o","u","t">>,
                chain |-> {<<"i","/","o"," ","t","i","m","e","o","u","t">>, TxtDeadline}]

\* What newConn returns: a connection (nil error) or a wrapped dial error.
DialResults == {NilErr, Wrapf(PfxDial, NewErr(TxtRefused)), Wrapf(PfxDial, DialTimeout)}

\* What a failing caller-supplied create function returns.
NewFnErrors == {NewErr(TxtBoom)}

\* ctx.Err()
CtxErr(c) == IF c.err = "canceled" THEN Canceled
             ELSE IF c.err = "deadline" THEN DeadlineExceeded ELSE NilErr

\* NewSMTP: the pool is built only when PoolMaxIdle > 0.
NewSMTPPool(cfg) ==
  IF cfg.PoolMaxIdle > 0
  THEN NewConnPool(cfg.PoolMaxIdle, cfg.PoolIdleTTL, "ok", TRUE, TRUE)
  ELSE NilPool

\* NewTokenBucket that leaves the bucket empty.
NewTokenBucketEmpty(rate, burst) ==
  LET r == IF rate <= 0 THEN 1 ELSE rate
      b == IF burst <= 0 THEN 1 ELSE burst
  IN [rate |-> r, burst |-> b, tokens |-> 0, slept |-> 0]

\* NewTokenBucket(rate, burst): the bucket starts full.
NewTokenBucket(rate, burst) ==
  LET r == IF rate <= 0 THEN 1 ELSE rate
      b == IF burst <= 0 THEN 1 ELSE burst
  IN [rate |-> r, burst |-> b, tokens |-> b, slept |-> 0]

NoCalls == [gets |-> 0, puts |-> 0, dials |-> 0, quits |-> 0]

\* No call of Next made yet.
NoCall == [st |-> "none", i |-> 0, d |-> 0, ok |-> FALSE]

\* The components at rest, while another part of the program is exercised.
BoIdle == bo = NoBackoff /\ boOut = NoCall
CpIdle == mu = 0 /\ callers = <<>> /\ closes = <<>>
TbIdle == tbMu = 0 /\ waiters = <<>> /\ now = 0 /\ last = 0 /\ served = <<>>
FnIdle == arg = <<>> /\ out = <<>>

Init ==
  /\ smtpCfg \in [Timeout : {0, 1}, PoolMaxIdle : {1}, PoolIdleTTL : {1},
                  Auth : BOOLEAN]
  /\ mpool = NewSMTPPool(smtpCfg)
  /\ sendCfg \in [Backoff : Backoffs, Hooks : BOOLEAN,
                  DKIM : {NoDKIM}, ListUnsub : {<<>>}]
  /\ pool \in Pools
  /\ bucket = NewTokenBucket(1, 1)
  /\ msg \in Messages
  /\ conns = <<>>
  /\ ctx = [hasDeadline |-> FALSE, err |-> "none"]
  /\ pc = "idle"
  /\ attempt = 0
  /\ d = 0
  /\ err = NilErr
  /\ result = NilErr
  /\ conn = 0
  /\ raw = NoRaw
  /\ own = FALSE
  /\ rcpt = 0
  /\ timedOut = FALSE
  /\ sends = 0
  /\ tries = <<>>
  /\ log = <<>>
  /\ wire = <<>>
  /\ att = NoCalls
  /\ BoIdle /\ CpIdle /\ TbIdle /\ FnIdle

\* -------------------------------------------------------------------- Send

HookEvent(ev, i, e) == [ev |-> ev, i |-> i, err |-> e]

\* The hooks are invoked only when cfg.Hooks and the callback are non-nil.
Hooked(l, ev, i, e) == IF sendCfg.Hooks THEN Append(l, HookEvent(ev, i, e)) ELSE l

\* The error of line 126.
ErrExhausted(n) == NewErr(TxtExhaustedA \o Itoa(n) \o TxtExhaustedB)

\* Send is called: the options are applied, the locals are fresh.
SendStart ==
  /\ pc \in {"idle", "done"}
  /\ sends < MaxSends
  /\ sends' = sends + 1
  /\ \E dl \in BOOLEAN : ctx' = [hasDeadline |-> dl, err |-> "none"]
  /\ \E rate \in BOOLEAN : pc' = IF rate THEN "rate" ELSE "build"
  /\ attempt' = 0 /\ d' = 0 /\ err' = NilErr /\ result' = NilErr
  /\ tries' = <<>> /\ log' = <<>>
  /\ conn' = 0 /\ own' = FALSE /\ rcpt' = 0 /\ timedOut' = FALSE
  /\ wire' = <<>> /\ att' = NoCalls /\ raw' = NoRaw
  /\ UNCHANGED <<cfgVars, sharedVars>>

\* The whole ticks now.Sub(tb.last) may measure: at least the time just
\* slept, at most what fills the bucket from empty.
Elapsed(b) == b.slept..((b.burst + b.rate - 1) \div b.rate)

\* The loop of TokenBucket.Wait without the cap at burst.
WaitPassUncapped(b, dt) ==
  LET t == b.tokens + dt * b.rate
  IN IF t >= 1
     THEN [bucket |-> [b EXCEPT !.tokens = t - 1, !.slept = 0], done |-> TRUE]
     ELSE [bucket |-> [b EXCEPT !.tokens = t,
                                !.slept = ((1 - t) + b.rate - 1) \div b.rate],
           done |-> FALSE]

\* One pass of the loop of TokenBucket.Wait: refill for the time dt since
\* tb.last, then take a token and return, or sleep for the deficit.
WaitPass(b, dt) ==
  LET t == Min(b.tokens + dt * b.rate, b.burst)
  IN IF t >= 1
     THEN [bucket |-> [b EXCEPT !.tokens = t - 1, !.slept = 0], done |-> TRUE]
     ELSE [bucket |-> [b EXCEPT !.tokens = t,
                                !.slept = ((1 - t) + b.rate - 1) \div b.rate],
           done |-> FALSE]

\* cfg.Rate.Wait(): Send stays in the limiter until a pass takes a token.
RateWait ==
  /\ pc = "rate"
  /\ \E dt \in Elapsed(bucket) :
       LET w == WaitPass(bucket, dt)
       IN /\ bucket' = w.bucket
          /\ pc' = IF w.done THEN "build" ELSE "rate"
  /\ UNCHANGED <<cfgVars, pool, conns, ctx, attempt, d, err, result, sends,
                 tries, log, tryVars>>

\* Another sender sharing the limiter takes a token when one is there.
OtherWait ==
  /\ pc = "rate"
  /\ bucket.slept = 0
  /\ \E dt \in Elapsed(bucket) :
       LET w == WaitPass(bucket, dt)
       IN w.done /\ bucket' = w.bucket
  /\ UNCHANGED <<cfgVars, pool, conns, sendVars, tryVars>>

\* Send going on to the attempts whatever BuildMIME returned.
BuildIgnoresError ==
  /\ pc = "build"
  /\ LET b == BuildMIME(msg, sendCfg.ListUnsub, sendCfg.DKIM, sendCfg.Hooks)
     IN /\ log' = log \o [k \in 1..Len(b.hooks) |->
                            HookEvent(b.hooks[k].ev, 0, b.hooks[k].err)]
        /\ err' = NilErr /\ result' = result /\ pc' = "loop"
        /\ raw' = [payload |-> b.raw, at |-> Len(tries)]
  /\ UNCHANGED <<cfgVars, sharedVars, ctx, attempt, d, sends, tries,
                 conn, own, rcpt, timedOut, wire, att>>

\* internal.BuildMIME as Send sees it: the validation error, or the payload
\* with the build hooks invoked around it.
Build ==
  /\ pc = "build"
  /\ LET b == BuildMIME(msg, sendCfg.ListUnsub, sendCfg.DKIM, sendCfg.Hooks)
     IN /\ log' = log \o [k \in 1..Len(b.hooks) |->
                            HookEvent(b.hooks[k].ev, 0, b.hooks[k].err)]
        /\ IF ~b.err.nil
           THEN err' = b.err /\ result' = b.err /\ pc' = "done" /\ raw' = NoRaw
           ELSE /\ err' = NilErr /\ result' = result /\ pc' = "loop"
                /\ raw' = [payload |-> b.raw, at |-> Len(tries)]
  /\ UNCHANGED <<cfgVars, sharedVars, ctx, attempt, d, sends, tries,
                 conn, own, rcpt, timedOut, wire, att>>

\* The head of Send's loop: the attempt-start hook, then bo.Next(attempt):
\* exhaustion, a delay to wait out, or straight on to trySend.
LoopTop ==
  /\ pc = "loop"
  /\ \E r \in BackoffNext(sendCfg.Backoff, attempt) :
       LET started == Hooked(log, "attemptStart", attempt, NilErr)
       IN IF ~r[2]
          THEN /\ log' = Hooked(started, "attemptDone", attempt,
                                NewErr(TxtHookExhausted))
               /\ result' = ErrExhausted(attempt)
               /\ pc' = "done" /\ d' = 0
          ELSE /\ log' = started /\ result' = result
               /\ d' = r[1]
               /\ pc' = IF r[1] > 0 THEN "sleep" ELSE "try"
  /\ UNCHANGED <<cfgVars, sharedVars, ctx, attempt, err, sends, tries, tryVars>>

\* The select of lines 130-137 takes the timer branch only while ctx.Done()
\* has not been closed before the timer fired.
SelectTimerAlways(c) == TRUE
SelectTimer(c) == c.err = "none"

\* time.After(d) fires first.
BackoffElapsed ==
  /\ pc = "sleep"
  /\ SelectTimer(ctx)
  /\ pc' = "try" /\ d' = 0
  /\ UNCHANGED <<cfgVars, sharedVars, ctx, attempt, err, result, sends, tries,
                 log, tryVars>>

\* ctx.Done() is closed first: the attempt-done hook, then return ctx.Err().
BackoffCancelled ==
  /\ pc = "sleep"
  /\ ctx.err # "none"
  /\ log' = Hooked(log, "attemptDone", attempt, CtxErr(ctx))
  /\ result' = CtxErr(ctx)
  /\ pc' = "done" /\ d' = 0
  /\ UNCHANGED <<cfgVars, sharedVars, ctx, attempt, err, sends, tries, tryVars>>

\* Send going back to BuildMIME for a fresh payload on a transient error.
AfterTryRebuilds(e) ==
  /\ err' = e
  /\ log' = Hooked(log, "attemptDone", attempt, e)
  /\ IF e.nil
     THEN result' = NilErr /\ pc' = "done" /\ attempt' = attempt
     ELSE IF ~isTransient(e)
     THEN result' = e /\ pc' = "done" /\ attempt' = attempt
     ELSE result' = result /\ pc' = "build" /\ attempt' = attempt + 1

\* Lines 140-150 of Send, once trySend has returned e.
AfterTryRetryAll(e) ==
  /\ err' = e
  /\ log' = Hooked(log, "attemptDone", attempt, e)
  /\ IF e.nil
     THEN result' = NilErr /\ pc' = "done" /\ attempt' = attempt
     ELSE result' = result /\ pc' = "loop" /\ attempt' = attempt + 1
AfterTry(e) ==
  /\ err' = e
  /\ log' = Hooked(log, "attemptDone", attempt, e)
  /\ IF e.nil
     THEN result' = NilErr /\ pc' = "done" /\ attempt' = attempt
     ELSE IF ~isTransient(e)
     THEN result' = e /\ pc' = "done" /\ attempt' = attempt
     ELSE result' = result /\ pc' = "loop" /\ attempt' = attempt + 1

\* ----------------------------------------------------------------- trySend

\* The cancel func of lines 211-216 stays nil when the context has no
\* deadline and no Timeout is configured.
CancelIsNil == ~ctx.hasDeadline /\ smtpCfg.Timeout <= 0

\* A protocol step issued now is past the attempt's deadline.
Late == IF ctx.hasDeadline THEN ctx.err = "deadline"
        ELSE smtpCfg.Timeout > 0 /\ timedOut

\* One command on the wire and whether the server accepted it.
Cmd(c, a, ok) == [cmd |-> c, arg |-> a, ok |-> ok]

FirstStep == IF smtpCfg.Auth THEN "auth" ELSE "mail"

\* trySend without the deferred Quit of lines 196-200.
ReturnNoQuit(e) ==
  LET toPool == pool.present /\ conn # 0
      put    == IF toPool THEN PoolPut(pool, conns, conn)
                ELSE [pool |-> pool, conns |-> conns]
  IN /\ pool' = put.pool
     /\ conns' = put.conns
     /\ att' = [att EXCEPT !.puts = @ + (IF toPool THEN 1 ELSE 0)]
     /\ IF CancelIsNil
        THEN pc' = "panic" /\ UNCHANGED <<err, result, log, attempt>>
        ELSE AfterTry(e)

\* trySend returns e after line 217: the deferred calls run last-in first-out:
\* cancel() (a nil func panics, the other defers still run), Pool.Put, Quit.
\* A panic leaves Send without a return value.
Return(e) ==
  LET toPool == pool.present /\ conn # 0
      quit   == own /\ ~pool.present /\ conn # 0
      put    == IF toPool THEN PoolPut(pool, conns, conn)
                ELSE [pool |-> pool, conns |-> conns]
  IN /\ pool' = put.pool
     /\ conns' = IF quit THEN CloseConn(put.conns, conn) ELSE put.conns
     /\ att' = [att EXCEPT !.puts = @ + (IF toPool THEN 1 ELSE 0),
                           !.quits = @ + (IF quit THEN 1 ELSE 0)]
     /\ IF CancelIsNil
        THEN pc' = "panic" /\ UNCHANGED <<err, result, log, attempt>>
        ELSE AfterTry(e)

\* The step went through: trySend goes on.
Continue(next) ==
  /\ pc' = next
  /\ UNCHANGED <<pool, conns, att, err, result, log, attempt>>

\* Lines 179-217: the connection comes from cfg.Pool when one is set and it
\* yields one, else from newConn.
TryAcquire ==
  /\ pc = "try"
  /\ tries' = Append(tries, attempt)
  /\ wire' = <<>> /\ rcpt' = 0 /\ timedOut' = FALSE
  /\ \E created \in (IF pool.New = "fail" THEN NewFnErrors ELSE DialResults),
        dialed \in DialResults :
       LET g == IF pool.present THEN PoolGet(pool, conns, created)
                ELSE [conn |-> 0, err |-> NilErr, pool |-> pool, conns |-> conns]
           gets == IF pool.present THEN 1 ELSE 0
       IN /\ pool' = g.pool
          /\ IF ~g.err.nil
             THEN /\ conns' = g.conns /\ conn' = 0 /\ own' = FALSE
                  /\ att' = [NoCalls EXCEPT !.gets = gets]
                  /\ AfterTry(g.err)
             ELSE IF g.conn # 0
             THEN /\ conns' = g.conns /\ conn' = g.conn /\ own' = FALSE
                  /\ att' = [NoCalls EXCEPT !.gets = gets]
                  /\ pc' = FirstStep
                  /\ UNCHANGED <<err, result, log, attempt>>
             ELSE IF dialed.nil
             THEN /\ conns' = Append(g.conns, FreshConn)
                  /\ conn' = Len(g.conns) + 1 /\ own' = TRUE
                  /\ att' = [NoCalls EXCEPT !.gets = gets, !.dials = 1]
                  /\ pc' = FirstStep
                  /\ UNCHANGED <<err, result, log, attempt>>
             ELSE /\ conns' = g.conns /\ conn' = 0 /\ own' = FALSE
                  /\ att' = [NoCalls EXCEPT !.gets = gets, !.dials = 1]
                  /\ AfterTry(dialed)
  /\ UNCHANGED <<cfgVars, bucket, ctx, d, sends, raw>>

stepFrame == <<cfgVars, bucket, ctx, d, sends, tries, conn, own, timedOut, raw>>

\* c.Auth
Auth ==
  /\ pc = "auth"
  /\ \E r \in Replies :
       /\ wire' = Append(wire, Cmd("AUTH", <<>>, r.nil))
       /\ IF r.nil THEN Continue("mail") ELSE Return(Wrapf(PfxAuth, r))
  /\ UNCHANGED <<stepFrame, rcpt>>

\* c.Mail(msg.From.Mail)
Mail ==
  /\ pc = "mail"
  /\ \E r \in Replies :
       /\ wire' = Append(wire, Cmd("MAIL", msg.From, r.nil))
       /\ IF r.nil
          THEN Continue(IF RecipientList(msg) = <<>> THEN "data" ELSE "rcpt")
          ELSE Return(Wrapf(PfxMail, r))
  /\ UNCHANGED <<stepFrame, rcpt>>

\* One pass of the loop over msg.RecipientList(): c.Rcpt(rcpt)
Rcpt ==
  /\ pc = "rcpt"
  /\ LET rl == RecipientList(msg)
         to == rl[rcpt + 1]
     IN \E r \in Replies :
          /\ wire' = Append(wire, Cmd("RCPT", to, r.nil))
          /\ IF r.nil
             THEN /\ rcpt' = rcpt + 1
                  /\ Continue(IF rcpt + 1 = Len(rl) THEN "data" ELSE "rcpt")
             ELSE /\ rcpt' = rcpt
                  /\ Return(Wrapf(PfxRcptA \o to \o PfxRcptB, r))
  /\ UNCHANGED stepFrame

\* c.Data()
Data ==
  /\ pc = "data"
  /\ \E r \in Replies :
       /\ wire' = Append(wire, Cmd("DATA", <<>>, r.nil))
       /\ IF r.nil THEN Continue("write") ELSE Return(Wrapf(PfxData, r))
  /\ UNCHANGED <<stepFrame, rcpt>>

\* w.Write(raw): the payload Send built goes out; a failed write still closes
\* the data writer.
Write ==
  /\ pc = "write"
  /\ \E r \in {NilErr, NewErr(TxtReset)} :
       IF r.nil
       THEN /\ wire' = Append(wire, Cmd("WRITE", raw, TRUE))
            /\ Continue("enddata")
       ELSE /\ wire' = wire \o <<Cmd("WRITE", raw, FALSE), Cmd("END", <<>>, FALSE)>>
            /\ Return(Wrapf(PfxWrite, r))
  /\ UNCHANGED <<stepFrame, rcpt>>

\* w.Close(): the end-of-data marker and the server's final reply.
EndData ==
  /\ pc = "enddata"
  /\ \E r \in Replies :
       /\ wire' = Append(wire, Cmd("END", <<>>, r.nil))
       /\ IF r.nil THEN Return(NilErr) ELSE Return(Wrapf(PfxEndData, r))
  /\ UNCHANGED <<stepFrame, rcpt>>

\* ------------------------------------------------------------- environment

InAttempt == pc \in {"auth", "mail", "rcpt", "data", "write", "enddata"}

\* The places where Send is blocked: the limiter, the backoff sleep, the
\* connect and the protocol dialogue.
Suspended == pc \in {"rate", "sleep", "try"} \/ InAttempt

\* The caller cancels the context while Send is blocked.
Cancel ==
  /\ Suspended
  /\ ctx.err = "none"
  /\ ctx' = [ctx EXCEPT !.err = "canceled"]
  /\ UNCHANGED <<cfgVars, sharedVars, pc, attempt, d, err, result, sends,
                 tries, log, tryVars>>

\* The context's deadline passes while Send is blocked.
DeadlinePasses ==
  /\ Suspended
  /\ ctx.hasDeadline
  /\ ctx.err = "none"
  /\ ctx' = [ctx EXCEPT !.err = "deadline"]
  /\ UNCHANGED <<cfgVars, sharedVars, pc, attempt, d, err, result, sends,
                 tries, log, tryVars>>

\* Some later call can still observe the pool.
MoreToCome == pc # "done" \/ sends < MaxSends

\* The configured Timeout runs out on the running attempt (it counts only
\* when the context carries no deadline).
TimeoutPasses ==
  /\ InAttempt
  /\ ~ctx.hasDeadline /\ smtpCfg.Timeout > 0
  /\ ~timedOut
  /\ timedOut' = TRUE
  /\ UNCHANGED <<cfgVars, sharedVars, sendVars, conn, own, rcpt, wire, att, raw>>

\* Time passes: every idle connection ages (saturating past the TTL, where
\* no comparison can tell the difference).
Tick ==
  /\ MoreToCome
  /\ pool.idle # <<>>
  /\ pool' = [pool EXCEPT !.idle =
                [k \in DOMAIN @ |-> [@[k] EXCEPT !.age = Min(@ + 1, pool.IdleTTL + 1)]]]
  /\ pool' # pool
  /\ UNCHANGED <<cfgVars, bucket, conns, sendVars, tryVars>>

\* The server drops an idle pooled connection: NOOP on it will fail.
ServerDrop ==
  /\ MoreToCome
  /\ \E k \in DOMAIN pool.idle :
       /\ ~conns[pool.idle[k].conn].dead
       /\ conns' = [conns EXCEPT ![pool.idle[k].conn].dead = TRUE]
  /\ UNCHANGED <<cfgVars, pool, bucket, sendVars, tryVars>>

Next ==
  \/ SendStart \/ RateWait \/ OtherWait \/ Build \/ LoopTop
  \/ BackoffElapsed \/ BackoffCancelled
  \/ TryAcquire \/ Auth \/ Mail \/ Rcpt \/ Data \/ Write \/ EndData
  \/ Cancel \/ DeadlinePasses \/ TimeoutPasses \/ Tick \/ ServerDrop

Spec == Init /\ [][Next]_vars

\* ============================================================== properties

\* An attempt of the current Send has come to its end.
AttemptEnded == tries # <<>> /\ pc \in {"loop", "sleep", "done", "panic"}

\* C1: when an attempt of Send fails with an error the transient classifier
\* rejects, Send is over and has returned that very error: it is not back at
\* the head of the loop, not in a backoff wait and not in a further attempt,
\* whatever budget is left.
C1_NonTransientAborts ==
  (~err.nil /\ ~isTransient(err)) => (pc = "done" /\ result = err)

\* A rejected (5xx) first attempt under a schedule that had a try left.
C1_Witness ==
  /\ pc = "done" /\ tries = <<0>>
  /\ Budget(sendCfg.Backoff) = MaxAttempts
  /\ ~err.nil /\ ~isTransient(err) /\ result = err
  /\ Contains(err.text, Txt550)

\* C2: under a schedule with budget N >= 1 one Send runs at most N attempts,
\* numbered 0, 1, 2, ... in the order they run, a further attempt is never
\* pending once N have run, and N transient failures end the Send with the
\* exhaustion error.
C2_AttemptBudget ==
  LET N == Budget(sendCfg.Backoff)
  IN /\ N >= 1
     /\ Len(tries) <= N
     /\ \A k \in DOMAIN tries : tries[k] = k - 1
     /\ pc \in {"sleep", "try"} => Len(tries) < N
     /\ (pc = "done" /\ Len(tries) = N /\ ~err.nil /\ isTransient(err))
          => result = ErrExhausted(N)

\* Two transient failures under a budget of two, then exhaustion.
C2_Witness ==
  /\ pc = "done" /\ tries = <<0, 1>>
  /\ Budget(sendCfg.Backoff) = 2
  /\ ~err.nil /\ isTransient(err)
  /\ result = ErrExhausted(2)

\* C3: the exhaustion error Send returns after transiently failed attempts
\* wraps the last attempt's error, so errors.Is finds the cause in it.
C3_ExhaustionWrapsCause ==
  (pc = "done" /\ tries # <<>> /\ result = ErrExhausted(Len(tries)))
    => ErrorsIs(result, err)

\* C4: a context cancelled during the backoff sleep before attempt i ends the
\* Send from the sleep: the result is the context's error, attempt i is not
\* run, and the attempt-done hook (when set) is called once, for i, with that
\* error.
C4_CancelDuringBackoff ==
  [][(pc = "sleep" /\ ctx.err # "none" /\ pc' # pc)
       => /\ pc' = "done"
          /\ result' = CtxErr(ctx)
          /\ ~result'.nil
          /\ tries' = tries /\ attempt' = attempt
          /\ log' = IF sendCfg.Hooks
                    THEN Append(log, HookEvent("attemptDone", attempt, CtxErr(ctx)))
                    ELSE log]_vars

\* Send has returned context.Canceled out of the sleep before attempt 1, with
\* the hook told so.
C4_Witness ==
  /\ pc = "done" /\ result = Canceled /\ ctx.err = "canceled"
  /\ tries = <<0>> /\ attempt = 1
  /\ sendCfg.Hooks
  /\ log[Len(log)] = HookEvent("attemptDone", 1, Canceled)

\* C5: once the context is cancelled at a suspension point of Send (limiter
\* wait, backoff sleep, network dialogue), no attempt of that Send is started
\* any more.
C5_CancelStopsAttempts ==
  [][(ctx.err = "canceled" /\ tries' # tries) => tries' = <<>>]_vars

\* C6: a Send that ends in failure after its context was cancelled or timed
\* out at a suspension point returns the context's own error, not an
\* "attempts exhausted" error nor the error of an attempt that went on.
C6_ContextErrorReturned ==
  (pc = "done" /\ ctx.err # "none" /\ ~result.nil) => result = CtxErr(ctx)

\* C7: no protocol step of an attempt goes on the wire once the attempt's
\* deadline is behind it: the context's deadline when it has one, else
\* Timeout after the connect when Timeout > 0.
C7_StepsWithinDeadline ==
  [][Len(wire') > Len(wire) => ~Late]_vars

\* The trimmed, non-blank mailboxes of a list, in the list's order.
Kept(xs) ==
  LET F[k \in 0..Len(xs)] ==
        IF k = 0 THEN <<>>
        ELSE IF TrimSpace(xs[k]) = <<>> THEN F[k - 1]
        ELSE Append(F[k - 1], TrimSpace(xs[k]))
  IN F[Len(xs)]

\* The dialogue of one attempt after the optional AUTH, were every command
\* accepted: MAIL, one RCPT per mailbox of To, Cc, Bcc, DATA, payload, end.
FullDialogue ==
  LET rl == Kept(msg.To) \o Kept(msg.Cc) \o Kept(msg.Bcc)
  IN <<[cmd |-> "MAIL", arg |-> msg.From]>>
     \o [k \in 1..Len(rl) |-> [cmd |-> "RCPT", arg |-> rl[k]]]
     \o <<[cmd |-> "DATA", arg |-> <<>>], [cmd |-> "WRITE", arg |-> raw],
          [cmd |-> "END", arg |-> <<>>]>>

\* The commands of the running (or last) attempt after the optional AUTH.
Envelope ==
  LET F[k \in 0..Len(wire)] ==
        IF k = 0 THEN <<>>
        ELSE IF wire[k].cmd = "AUTH" THEN F[k - 1]
        ELSE Append(F[k - 1], [cmd |-> wire[k].cmd, arg |-> wire[k].arg])
  IN F[Len(wire)]

\* C8: what an attempt has sent is always a prefix of MAIL FROM, RCPT TO for
\* To then Cc then Bcc, DATA, payload; and a rejected RCPT is the last thing
\* the attempt sent: the attempt is over, no RCPT or DATA follows.
C8_EnvelopeOrder ==
  /\ Len(Envelope) <= Len(FullDialogue)
  /\ \A k \in DOMAIN Envelope : Envelope[k] = FullDialogue[k]
  /\ \A k \in DOMAIN wire :
       (wire[k].cmd = "RCPT" /\ ~wire[k].ok)
         => (k = Len(wire) /\ ~InAttempt)

\* An attempt sent MAIL and the RCPTs for To and Cc, had the third RCPT (the
\* Bcc mailbox) refused, and sent nothing after it.
C8_Witness ==
  /\ AttemptEnded
  /\ Len(Envelope) = 4
  /\ wire[Len(wire)] = [cmd |-> "RCPT", arg |-> TrimSpace(MailC), ok |-> FALSE]
  /\ Envelope[2].arg = MailA /\ Envelope[3].arg = TrimSpace(MailB)

C10_ConfigPoolUsed ==
  (pc = "done" /\ tries # <<>> /\ result.nil
   /\ smtpCfg.PoolMaxIdle > 0 /\ ~pool.present)
    => /\ mpool.idle # <<>>
       /\ ~conns[conn].closed

\* ======================================================= the backoff alone

\* No mailer and no Send: the transport at rest while a component is
\* exercised directly.
SendIdle ==
  /\ smtpCfg = [Timeout |-> 0, PoolMaxIdle |-> 0, PoolIdleTTL |-> 0, Auth |-> FALSE]
  /\ mpool = NilPool
  /\ sendCfg = [Backoff |-> NoBackoff, Hooks |-> FALSE,
                DKIM |-> NoDKIM, ListUnsub |-> <<>>]
  /\ msg = [From |-> <<>>, To |-> <<>>, Cc |-> <<>>, Bcc |-> <<>>,
           Plain |-> <<>>, HTML |-> <<>>, Attach |-> <<>>, Headers |-> NoHeaders,
   Subject |-> <<>>, TrackingID |-> <<>>]
  /\ ctx = [hasDeadline |-> FALSE, err |-> "none"]
  /\ pc = "idle" /\ attempt = 0 /\ d = 0 /\ err = NilErr /\ result = NilErr
  /\ sends = 0 /\ tries = <<>> /\ log = <<>>
  /\ conn = 0 /\ own = FALSE /\ rcpt = 0 /\ timedOut = FALSE /\ raw = NoRaw
  /\ wire = <<>> /\ att = NoCalls

sendFrame == <<smtpCfg, mpool, sendCfg, msg, sendVars, tryVars>>

\* The largest attempts argument and attempt index tried.
MaxBoAttempts == 5

\* The base delays and caps handed to ExponentialBackoff: negative, zero,
\* small, and large enough for base * 2^(i-1) to leave the Duration range.
BoBases == {-2, -1, 0, 1, 3, 40}
BoCaps == {0, 5, 100}

BackoffInit ==
  /\ SendIdle /\ CpIdle /\ TbIdle /\ FnIdle
  /\ pool = NilPool /\ conns = <<>> /\ bucket = NewTokenBucket(1, 1)
  /\ \E a \in -1..MaxBoAttempts, base \in BoBases, max \in BoCaps, fj \in BOOLEAN :
       bo = ExponentialBackoff(a, base, max, fj)
  /\ boOut = NoCall

\* bo.Next(i) returns.
BoNext ==
  /\ \E i \in 0..(MaxBoAttempts + 1) :
       \E r \in expBackoffNext(bo, i) :
         boOut' = [st |-> "ret", i |-> i, d |-> r[1], ok |-> r[2]]
  /\ UNCHANGED <<sendFrame, sharedVars, bo, cpVars, tbVars, fnVars>>

\* bo.Next(i) panics in rand.Int63n.
BoPanic ==
  /\ \E i \in 0..(MaxBoAttempts + 1) :
       /\ expBackoffPanics(bo, i)
       /\ boOut' = [st |-> "panic", i |-> i, d |-> 0, ok |-> FALSE]
  /\ UNCHANGED <<sendFrame, sharedVars, bo, cpVars, tbVars, fnVars>>

BackoffNextStep == BoNext \/ BoPanic

BackoffSpec == BackoffInit /\ [][BackoffNextStep]_vars

\* C17: for every backoff ExponentialBackoff builds, Next(0) returns (0, true),
\* Next(i) returns ok = false for i >= attempts and ok = true for
\* 0 <= i < attempts (attempts <= 0 counting as 1).  Stated for the backoffs
\* with a non-negative base and a positive cap, which are among them.
C17_NextOk ==
  (boOut.st # "none" /\ bo.base >= 0 /\ bo.max > 0) =>
    /\ boOut.st = "ret"
    /\ boOut.i = 0 => (boOut.d = 0 /\ boOut.ok)
    /\ boOut.i >= bo.attempts => ~boOut.ok
    /\ (0 <= boOut.i /\ boOut.i < bo.attempts) => boOut.ok

\* C18: for 1 <= i < attempts and D = min(base * 2^(i-1), cap), Next(i) returns
\* a delay in [D/2, D] under half jitter and in [0, D] under full jitter, so
\* never above the cap and never negative.  Stated for the backoffs with a
\* non-negative base and a positive cap.
C18_DelayRange ==
  (boOut.st # "none" /\ 1 <= boOut.i /\ boOut.i < bo.attempts
   /\ bo.base >= 0 /\ bo.max > 0) =>
    LET D == Min(bo.base * Pow2(boOut.i - 1), bo.max)
    IN /\ boOut.st = "ret"
       /\ boOut.d >= (IF bo.fullJitter THEN 0 ELSE D \div 2)
       /\ boOut.d <= D
       /\ boOut.d <= bo.max
       /\ boOut.d >= 0

\* ========================================================== the pool alone

\* The goroutines sharing the pool, and the connections ever created.
NumCallers == 2
MaxConns == 3
Callers == 1..NumCallers

\* A caller outside any call, holding nothing.
Resting == [op |-> "none", held |-> 0,
            ret |-> [conn |-> 0, err |-> NilErr], io |-> {}]

\* The Close function was called on each connection of ids once more.
RECURSIVE Counted(_, _)
Counted(n, ids) ==
  IF ids = <<>> THEN n
  ELSE Counted([n EXCEPT ![Head(ids)] = @ + 1], Tail(ids))

\* CloseAll that closes the idle connections and keeps the list.
PoolCloseAllKeepsList(p, cs) ==
  LET ids == [k \in DOMAIN p.idle |-> p.idle[k].conn]
  IN [pool |-> p,
      conns |-> IF p.Close THEN CloseEach(cs, ids) ELSE cs,
      closed |-> IF p.Close THEN ids ELSE <<>>]

\* ConnPool.CloseAll: every idle connection goes to Close, front to back, and
\* the list is emptied.
PoolCloseAll(p, cs) ==
  LET ids == [k \in DOMAIN p.idle |-> p.idle[k].conn]
  IN [pool |-> [p EXCEPT !.idle = <<>>],
      conns |-> IF p.Close THEN CloseEach(cs, ids) ELSE cs,
      closed |-> IF p.Close THEN ids ELSE <<>>]

\* The callbacks a Get on pool p invokes: IsHealthy on every entry it examines
\* that is within the TTL, Close on every entry it drops, New when it found
\* nothing to reuse.
GetCallbacks(p, cs) ==
  LET r == PopIdle(p, p.idle, cs)
  IN (IF p.IsHealthy /\ \E k \in (Len(r.idle) + 1)..Len(p.idle) :
                          p.idle[k].age <= p.IdleTTL
      THEN {"IsHealthy"} ELSE {})
     \cup (IF r.closed # <<>> THEN {"Close"} ELSE {})
     \cup (IF r.conn = 0 /\ p.New # "nil" THEN {"New"} ELSE {})

PoolInit ==
  /\ SendIdle /\ BoIdle /\ TbIdle /\ FnIdle
  /\ bucket = NewTokenBucket(1, 1)
  /\ \E mi \in {0, 1}, n \in {"nil", "ok", "fail"}, cl \in BOOLEAN, h \in BOOLEAN :
       pool = NewConnPool(mi, 1, n, cl, h)
  /\ conns = <<>>
  /\ mu = 0
  /\ callers = [c \in Callers |-> Resting]
  /\ closes = [k \in 1..MaxConns |-> 0]

poolFrame == <<sendFrame, bucket, boVars, tbVars, fnVars>>

\* p.Get() by caller c: p.mu is taken and the body runs under it.
GetCall(c) ==
  /\ mu = 0 /\ callers[c].op = "none" /\ callers[c].held = 0
  /\ \E created \in (IF pool.New = "fail" THEN NewFnErrors ELSE {NilErr}) :
       LET g == PoolGet(pool, conns, created)
           r == PopIdle(pool, pool.idle, conns)
       IN /\ Len(g.conns) <= MaxConns
          /\ pool' = g.pool /\ conns' = g.conns
          /\ closes' = Counted(closes, r.closed)
          /\ callers' = [callers EXCEPT ![c] =
               [op |-> "get", held |-> 0,
                ret |-> [conn |-> g.conn, err |-> g.err],
                io |-> GetCallbacks(pool, conns)]]
  /\ mu' = c
  /\ UNCHANGED poolFrame

\* p.Put(conn) by the caller holding conn.
PutCall(c) ==
  /\ mu = 0 /\ callers[c].op = "none" /\ callers[c].held # 0
  /\ LET k    == callers[c].held
         full == Len(pool.idle) >= pool.MaxIdle
         q    == PoolPut(pool, conns, k)
     IN /\ pool' = q.pool /\ conns' = q.conns
        /\ closes' = IF full /\ pool.Close THEN Counted(closes, <<k>>) ELSE closes
        /\ callers' = [callers EXCEPT ![c] =
             [@ EXCEPT !.op = "put", !.held = 0,
                       !.io = IF full /\ pool.Close THEN {"Close"} ELSE {}]]
  /\ mu' = c
  /\ UNCHANGED poolFrame

\* p.Put(nil): returns before the lock.
PutNil(c) ==
  /\ callers[c].op = "none" /\ callers[c].held = 0
  /\ LET q == PoolPut(pool, conns, 0)
     IN pool' = q.pool /\ conns' = q.conns
  /\ UNCHANGED <<mu, callers, closes, poolFrame>>

\* p.CloseAll() by caller c.
CloseAllCall(c) ==
  /\ mu = 0 /\ callers[c].op = "none"
  /\ LET q == PoolCloseAll(pool, conns)
     IN /\ pool' = q.pool /\ conns' = q.conns
        /\ closes' = Counted(closes, q.closed)
        /\ callers' = [callers EXCEPT ![c] =
             [@ EXCEPT !.op = "closeall",
                       !.io = IF q.closed # <<>> THEN {"Close"} ELSE {}]]
  /\ mu' = c
  /\ UNCHANGED poolFrame

\* The deferred p.mu.Unlock() and the return; Get hands its result over.
Unlock(c) ==
  /\ mu = c
  /\ mu' = 0
  /\ callers' = [callers EXCEPT ![c] =
       [@ EXCEPT !.op = "none", !.io = {},
                 !.held = IF callers[c].op = "get" THEN callers[c].ret.conn
                          ELSE callers[c].held]]
  /\ UNCHANGED <<pool, conns, closes, poolFrame>>

\* The caller of a pool without a create function, whose Get yields
\* (nil, nil), dials a connection itself, as trySend does, to Put it later.
Adopt(c) ==
  /\ callers[c].op = "none" /\ callers[c].held = 0
  /\ pool.New = "nil"
  /\ Len(conns) < MaxConns
  /\ conns' = Append(conns, FreshConn)
  /\ callers' = [callers EXCEPT ![c].held = Len(conns) + 1]
  /\ UNCHANGED <<pool, mu, closes, poolFrame>>

PoolNext ==
  \/ \E c \in Callers : GetCall(c)
  \/ \E c \in Callers : PutCall(c)
  \/ \E c \in Callers : PutNil(c)
  \/ \E c \in Callers : CloseAllCall(c)
  \/ \E c \in Callers : Unlock(c)
  \/ \E c \in Callers : Adopt(c)
  \/ Tick
  \/ ServerDrop

PoolSpec == PoolInit /\ [][PoolNext]_vars

\* Caller c makes this step into Get, Put or CloseAll.
Enters(c, op) == callers[c].op = "none" /\ callers'[c].op = op

\* An idle entry Get may hand out: within the TTL and, when a health check
\* is configured, healthy.
Usable(it) ==
  it.age <= pool.IdleTTL /\ (pool.IsHealthy => ~conns[it.conn].dead)

\* The positions of the usable idle entries; the last position is the most
\* recently returned entry.
UsableAt == {k \in DOMAIN pool.idle : Usable(pool.idle[k])}

\* How often Close is called on a dropped entry by a pool with or without a
\* Close function.
OnceIfClose == IF pool.Close THEN 1 ELSE 0

\* C11: Get hands out the usable idle entry returned most recently; every
\* entry returned after it is taken off the idle list, handed to Close once
\* (by a pool that has a Close function) and not handed out; the entries
\* before it stay; with no usable entry the idle list ends empty and what Get
\* returns is none of the old entries.  No connection is ever closed twice.
C11_GetReusesNewestUsable ==
  [][\A c \in Callers : Enters(c, "get") =>
       LET idle == pool.idle
           got  == callers'[c].ret.conn
           m    == IF UsableAt = {} THEN 0
                   ELSE CHOOSE k \in UsableAt : \A j \in UsableAt : j <= k
       IN /\ m > 0 => got = idle[m].conn
          /\ m = 0 => \A k \in DOMAIN idle : got # idle[k].conn
          /\ pool'.idle = SubSeq(idle, 1, m - 1)
          /\ \A k \in DOMAIN idle :
               IF k > m
               THEN /\ closes'[idle[k].conn] = closes[idle[k].conn] + OnceIfClose
                    /\ conns'[idle[k].conn].closed = pool.Close
               ELSE /\ closes'[idle[k].conn] = closes[idle[k].conn]
                    /\ ~conns'[idle[k].conn].closed
          /\ \A k \in DOMAIN closes' : closes'[k] <= 1]_vars

\* A Get in progress that dropped and closed the newest entry, found
\* unhealthy, and hands out the one returned before it.
C11_Witness ==
  /\ mu # 0 /\ callers[mu].op = "get"
  /\ callers[mu].ret.conn # 0
  /\ callers[mu].io = {"IsHealthy", "Close"}
  /\ \E k \in DOMAIN conns : closes[k] = 1 /\ conns[k].closed /\ conns[k].dead
  /\ pool.idle = <<>> /\ pool.MaxIdle = DefaultMaxIdle

\* C12: a Get that finds no usable idle entry returns (nil, nil) without a
\* create function and (nil, the create function's error) when that fails,
\* leaving the in-use counter alone in both cases; else it returns the created
\* connection and raises the counter by one.
C12_GetCreates ==
  [][\A c \in Callers : (Enters(c, "get") /\ UsableAt = {}) =>
       LET ret == callers'[c].ret
       IN IF pool.New = "nil"
          THEN ret.conn = 0 /\ ret.err.nil /\ pool'.inUse = pool.inUse
               /\ conns' = [k \in DOMAIN conns |->
                              [conns[k] EXCEPT !.closed = @ \/ closes'[k] > closes[k]]]
          ELSE IF pool.New = "fail"
          THEN ret.conn = 0 /\ ret.err \in NewFnErrors /\ pool'.inUse = pool.inUse
          ELSE /\ ret.conn = Len(conns) + 1 /\ ret.err.nil
               /\ Len(conns') = Len(conns) + 1
               /\ conns'[ret.conn] = FreshConn
               /\ pool'.inUse = pool.inUse + 1]_vars

\* A Get on an empty pool whose create function failed: the error comes back,
\* no connection, nothing counted in use.
C12_Witness ==
  /\ mu # 0 /\ callers[mu].op = "get"
  /\ pool.New = "fail"
  /\ callers[mu].ret = [conn |-> 0, err |-> NewErr(TxtBoom)]
  /\ callers[mu].io = {"New"}
  /\ pool.inUse = 0

\* C13: the idle list never holds more than MaxIdle connections; a Put that
\* finds it at capacity closes the connection at once (a pool with a Close
\* function does) and does not store it; a Put below capacity stores it as
\* the newest entry with a fresh timestamp and does not close it; Put(nil)
\* changes nothing.
C13_PutKeepsCapacity ==
  [][/\ Len(pool'.idle) <= pool'.MaxIdle
     /\ PoolPut(pool, conns, 0) = [pool |-> pool, conns |-> conns]
     /\ \A c \in Callers : Enters(c, "put") =>
          LET k == callers[c].held
          IN IF Len(pool.idle) >= pool.MaxIdle
             THEN /\ pool'.idle = pool.idle
                  /\ closes'[k] = closes[k] + OnceIfClose
                  /\ conns'[k].closed = pool.Close
             ELSE /\ pool'.idle = Append(pool.idle, [conn |-> k, age |-> 0])
                  /\ closes' = closes
                  /\ ~conns'[k].closed]_vars

\* A Put in progress that found the single idle slot taken and closed its
\* connection, the idle entry staying.
C13_Witness ==
  /\ mu # 0 /\ callers[mu].op = "put" /\ callers[mu].io = {"Close"}
  /\ pool.MaxIdle = 1 /\ Len(pool.idle) = 1
  /\ \E k \in DOMAIN conns :
       /\ closes[k] = 1 /\ conns[k].closed
       /\ pool.idle[1].conn # k /\ ~conns[pool.idle[1].conn].closed

\* C14: CloseAll hands every connection idle at the call to Close once and
\* empties the idle list; the in-use counter and the connections callers hold
\* stay as they are, and such a connection put back later is stored like any
\* other.
C14_CloseAllDrains ==
  [][/\ \A c \in Callers : Enters(c, "closeall") =>
          /\ pool'.idle = <<>>
          /\ pool'.inUse = pool.inUse
          /\ \A k \in DOMAIN conns :
               IF \E j \in DOMAIN pool.idle : pool.idle[j].conn = k
               THEN /\ closes'[k] = closes[k] + OnceIfClose
                    /\ closes'[k] <= 1
                    /\ conns'[k].closed = pool.Close
               ELSE closes'[k] = closes[k] /\ conns'[k] = conns[k]
          /\ \A o \in Callers : callers'[o].held = callers[o].held
     /\ \A c \in Callers : (Enters(c, "put") /\ pool.idle = <<>>) =>
          /\ pool'.idle = <<[conn |-> callers[c].held, age |-> 0]>>
          /\ conns'[callers[c].held] = conns[callers[c].held]]_vars

\* A CloseAll in progress that closed an idle connection while another caller
\* holds one, which stays open and counted.
C14_Witness ==
  /\ mu # 0 /\ callers[mu].op = "closeall" /\ callers[mu].io = {"Close"}
  /\ pool.idle = <<>> /\ pool.inUse = 1
  /\ \E k \in DOMAIN conns : closes[k] = 1 /\ conns[k].closed
  /\ \E o \in Callers : callers[o].held # 0 /\ ~conns[callers[o].held].closed

\* The callers that have connection k: checked out, or on its way out of a
\* Get that has not returned yet.
HeldBy(k) ==
  {c \in Callers : callers[c].held = k
                   \/ (callers[c].op = "get" /\ callers[c].ret.conn = k)}

\* The idle entries that carry connection k.
IdleAt(k) == {j \in DOMAIN pool.idle : pool.idle[j].conn = k}

\* C15: whatever Get, Put and CloseAll calls the callers interleave, a
\* connection is held by one caller, or idle in the pool once, or closed, and
\* never two of these: none is handed to two callers, none is handed out or
\* kept idle after the pool closed it, and none is closed twice.
C15_ExclusiveOwnership ==
  \A k \in DOMAIN conns :
    /\ Cardinality(HeldBy(k)) + Cardinality(IdleAt(k))
         + (IF conns[k].closed THEN 1 ELSE 0) <= 1
    /\ closes[k] <= 1
    /\ conns[k].closed <=> closes[k] = 1

\* Three connections, one in each condition: held by a caller, idle, closed.
C15_Witness ==
  /\ Len(conns) = 3
  /\ \E a, b, k \in DOMAIN conns :
       /\ HeldBy(a) # {} /\ IdleAt(b) # {} /\ conns[k].closed
       /\ pool.inUse = 1

\* C16: no create, close or health-check callback runs while p.mu is held.
C16_NoIOUnderLock ==
  \A c \in Callers : mu = c => callers[c].io = {}

\* ================================================= the token bucket alone

\* The goroutines sharing the bucket, the Wait calls they make in all, and
\* the ticks the clock runs for.
NumWaiters == 2
MaxWaits == 4
MaxTime == 3
Waiters == 1..NumWaiters

\* A goroutine outside Wait.
Away == [st |-> "out", sleeps |-> 0, first |-> -1, wake |-> 0]

\* The calls of Wait begun so far.
Begun == Len(served) + Cardinality({w \in Waiters : waiters[w].st # "out"})

BucketInit ==
  /\ SendIdle /\ BoIdle /\ CpIdle /\ FnIdle
  /\ pool = NilPool /\ conns = <<>>
  /\ \E rate \in 0..2, burst \in 0..2 : bucket = NewTokenBucket(rate, burst)
  /\ tbMu = 0
  /\ waiters = [w \in Waiters |-> Away]
  /\ now = 0 /\ last = 0
  /\ served = <<>>

bucketFrame == <<sendFrame, pool, conns, boVars, cpVars, fnVars>>

\* Goroutine w calls tb.Wait() and stands at tb.mu.Lock().
WaitCall(w) ==
  /\ waiters[w].st = "out"
  /\ Begun < MaxWaits
  /\ waiters' = [waiters EXCEPT ![w] = [Away EXCEPT !.st = "lock"]]
  /\ UNCHANGED <<bucketFrame, bucket, tbMu, now, last, served>>

\* tb.mu.Lock() lets w in.
WaitLock(w) ==
  /\ waiters[w].st = "lock"
  /\ tbMu = 0
  /\ tbMu' = w
  /\ waiters' = [waiters EXCEPT ![w].st = "run"]
  /\ UNCHANGED <<bucketFrame, bucket, now, last, served>>

\* The loop of Wait returning without the deferred Unlock.
WaitLoopKeepsLock(w) ==
  /\ waiters[w].st = "run"
  /\ tbMu = w
  /\ last' = now
  /\ LET r == WaitPass(bucket, now - last)
         f == IF waiters[w].first < 0 THEN now ELSE waiters[w].first
     IN /\ bucket' = r.bucket
        /\ IF r.done
           THEN /\ served' = Append(served, [sleeps |-> waiters[w].sleeps,
                                             first |-> f])
                /\ waiters' = [waiters EXCEPT ![w] = Away]
           ELSE /\ waiters' = [waiters EXCEPT ![w] =
                                 [st |-> "sleep", sleeps |-> @.sleeps + 1,
                                  first |-> f, wake |-> now + r.bucket.slept]]
                /\ UNCHANGED served
  /\ UNCHANGED <<bucketFrame, now, tbMu>>

\* One pass of the loop by w, the lock holder: tb.last moves to now, the
\* bucket refills; with a token w takes it and returns, the deferred Unlock
\* releasing tb.mu, without one it goes to sleep with tb.mu held.
WaitLoop(w) ==
  /\ waiters[w].st = "run"
  /\ tbMu = w
  /\ last' = now
  /\ LET r == WaitPass(bucket, now - last)
         f == IF waiters[w].first < 0 THEN now ELSE waiters[w].first
     IN /\ bucket' = r.bucket
        /\ IF r.done
           THEN /\ served' = Append(served, [sleeps |-> waiters[w].sleeps,
                                             first |-> f])
                /\ waiters' = [waiters EXCEPT ![w] = Away]
                /\ tbMu' = 0
           ELSE /\ waiters' = [waiters EXCEPT ![w] =
                                 [st |-> "sleep", sleeps |-> @.sleeps + 1,
                                  first |-> f, wake |-> now + r.bucket.slept]]
                /\ UNCHANGED <<served, tbMu>>
  /\ UNCHANGED <<bucketFrame, now>>

\* time.Sleep(sleep) returns, no sooner than asked.
WaitWake(w) ==
  /\ waiters[w].st = "sleep"
  /\ now >= waiters[w].wake
  /\ waiters' = [waiters EXCEPT ![w].st = "run"]
  /\ UNCHANGED <<bucketFrame, bucket, tbMu, now, last, served>>

\* Time passes.
ClockTick ==
  /\ now < MaxTime
  /\ now' = now + 1
  /\ UNCHANGED <<bucketFrame, bucket, tbMu, waiters, last, served>>

BucketNext ==
  \/ \E w \in Waiters : WaitCall(w)
  \/ \E w \in Waiters : WaitLock(w)
  \/ \E w \in Waiters : WaitLoop(w)
  \/ \E w \in Waiters : WaitWake(w)
  \/ ClockTick

BucketSpec == BucketInit /\ [][BucketNext]_vars

\* C19: the token count stays within [0, burst], and by time t after
\* construction at most burst + rate * t calls of Wait have returned, however
\* many goroutines call it.
C19_RateBound ==
  /\ 0 <= bucket.tokens /\ bucket.tokens <= bucket.burst
  /\ Len(served) <= bucket.burst + bucket.rate * now

\* The bound is met: at a time t > 0, burst + rate * t calls have returned,
\* one of them after sleeping, the bucket is empty and the next caller
\* sleeps.
C19_Witness ==
  /\ now > 0 /\ bucket.burst > 1
  /\ Len(served) = bucket.burst + bucket.rate * now
  /\ bucket.tokens = 0
  /\ \E n \in DOMAIN served : served[n].sleeps = 1
  /\ \E w \in Waiters : waiters[w].st = "sleep"

\* C20: a new bucket of burst b is full: the first b calls of Wait return
\* without sleeping, and call b + 1, when it runs before any time has passed
\* since construction, sleeps at least once before it returns.
C20_StartsFull ==
  /\ \A n \in DOMAIN served :
       /\ n <= bucket.burst => served[n].sleeps = 0
       /\ (n = bucket.burst + 1 /\ served[n].first = 0) => served[n].sleeps >= 1
  /\ \A w \in Waiters :
       /\ (waiters[w].st = "sleep" /\ waiters[w].sleeps = 1) =>
            Len(served) >= bucket.burst
       /\ (waiters[w].st = "run" /\ waiters[w].first = 0
           /\ Len(served) = bucket.burst) => waiters[w].sleeps >= 1

\* Two calls on a bucket of burst 2 returned at once and the third, begun at
\* the same instant, returned after one sleep.
C20_Witness ==
  /\ bucket.burst = 2 /\ Len(served) = 3
  /\ served[1].sleeps = 0 /\ served[2].sleeps = 0
  /\ served[3].first = 0 /\ served[3].sleeps = 1

\* ------------------------------------------- the token bucket for ever

Max(a, b) == IF a > b THEN a ELSE b

\* Time passes beyond MaxTime: the clock is read relative to a later origin,
\* one tick further on.  tb.last and the wake-up times move back with it
\* (tb.last no further than fills the bucket); the readings kept in served
\* and waiters[w].first stay as taken.
ClockRebase ==
  /\ now = MaxTime
  /\ last' = Max(last - 1, now - bucket.burst)
  /\ waiters' = [w \in Waiters |->
                   [waiters[w] EXCEPT !.wake = Max(@ - 1, 0)]]
  /\ UNCHANGED <<bucketFrame, bucket, tbMu, now, served>>

BucketLiveNext == BucketNext \/ ClockRebase

\* The scheduling the runtime gives: the clock runs on, a goroutine that can
\* run does, a sleeper wakes, and sync.Mutex hands the lock to every
\* goroutine blocked in Lock (starvation mode).
BucketFair ==
  /\ WF_vars(ClockTick) /\ WF_vars(ClockRebase)
  /\ \A w \in Waiters : /\ SF_vars(WaitLock(w))
                        /\ WF_vars(WaitLoop(w))
                        /\ WF_vars(WaitWake(w))

BucketLive == BucketInit /\ [][BucketLiveNext]_vars /\ BucketFair

\* C21: every call of Wait returns in the end, also a call made while another
\* caller sleeps on the empty bucket with the lock held, and each return
\* takes one token of its own: the count after the refill is at least 1 and
\* goes down by exactly 1.
C21_WaitReturns ==
  /\ \A w \in Waiters : (waiters[w].st # "out") ~> (waiters[w].st = "out")
  /\ [][Len(served') = Len(served) + 1 =>
          /\ Min(bucket.tokens + (now - last) * bucket.rate, bucket.burst) >= 1
          /\ bucket'.tokens =
               Min(bucket.tokens + (now - last) * bucket.rate, bucket.burst) - 1
          /\ bucket'.tokens >= 0]_vars

\* Two callers on an empty bucket past MaxTime: one asleep with the lock, the
\* other blocked in Lock, after an earlier call already returned from a sleep.
C21_Witness ==
  /\ bucket.tokens = 0 /\ now = MaxTime
  /\ \E w, o \in Waiters :
       /\ waiters[w].st = "sleep" /\ tbMu = w /\ waiters[w].wake > now
       /\ waiters[o].st = "lock"
  /\ \E n \in DOMAIN served : served[n].sleeps >= 1

\* ============================================== the classifier alone

\* textproto.Error.Error(): "<code> <msg>".
ReplyText(code, text) == Itoa(code) \o <<" ">> \o text

Mail4 == <<"4","@","x">>
MsgBusy == <<"b","u","s","y">>
MsgTryAgain == <<"T","r","y"," ","A","g","a","i","n">>
MsgNoUser == <<"n","o"," ","s","u","c","h"," ","u","s","e","r">>
MsgBadAuth == <<"b","a","d"," ","c","r","e","d","e","n","t","i","a","l","s">>
MsgTimeout == <<"T","i","m","e","o","u","t">>
TxtPipe == <<"w","r","i","t","e",":"," ","B","r","o","k","e","n"," ","P","i","p","e">>
TxtTemporarily == <<"T","E","M","P","O","R","A","R","I","L","Y"," ","d","o","w","n">>

\* The errors an attempt can end with, before the stage prefix: a server
\* reply (code and message), or another failure (code 0).
Causes ==
  {[code |-> c, err |-> NewErr(ReplyText(c, m))] :
     c \in {421, 450, 535, 550, 554},
     m \in {MsgBusy, MsgTryAgain, MsgNoUser, MsgBadAuth, MsgTimeout}}
  \cup {[code |-> 0, err |-> e] :
          e \in {NewErr(TxtRefused), NewErr(TxtReset), NewErr(TxtPipe),
                 NewErr(TxtTemporarily), NewErr(TxtBoom),
                 DeadlineExceeded, Canceled, DialTimeout}}

\* The prefixes trySend and newConn put before the cause; the empty one is
\* the error of cfg.Pool.Get(), which trySend returns as it is.
Stages ==
  {<<>>, PfxAuth, PfxMail, PfxData, PfxWrite, PfxEndData, PfxDial}
  \cup {PfxRcptA \o r \o PfxRcptB : r \in {MailA, Mail4, TrimSpace(MailB)}}

\* The error trySend returns for a cause met at a stage.
StageErr(stage, e) == IF stage = <<>> THEN e ELSE Wrapf(stage, e)

ClassifyInit ==
  /\ SendIdle /\ BoIdle /\ CpIdle /\ TbIdle
  /\ pool = NilPool /\ conns = <<>> /\ bucket = NewTokenBucket(1, 1)
  /\ \E st \in Stages, c \in Causes :
       arg = [stage |-> st, code |-> c.code, err |-> StageErr(st, c.err)]
  /\ out = <<>>

\* isTransient(err) is called and returns.
Classify ==
  /\ out = <<>>
  /\ out' = [transient |-> isTransient(arg.err)]
  /\ UNCHANGED <<sendFrame, sharedVars, boVars, cpVars, tbVars, arg>>

ClassifySpec == ClassifyInit /\ [][Classify]_vars

\* C22: an attempt's error that carries a 5xx reply of the server (the
\* rejection of a recipient, a failed authentication) is classified
\* non-transient, whatever the recipient address and the reply text.
C22_PermanentNotRetried ==
  (out # <<>> /\ arg.code >= 500 /\ arg.code <= 599) => ~out.transient

\* The text of arg.err holds one of the transient words in some letter case.
HasTransientWord ==
  \E k \in 1..Len(TransientWords) :
    Contains(ToLower(arg.err.text), TransientWords[k])

\* C23: a deadline-exceeded error, a 4xx reply of the server with or without
\* a stage prefix, and an error whose text holds one of the transient words
\* in any letter case are classified transient.
C23_TransientRetried ==
  (out # <<>> /\ (\/ ErrorsIs(arg.err, DeadlineExceeded)
                  \/ (arg.code >= 400 /\ arg.code <= 499)
                  \/ HasTransientWord))
    => out.transient

\* =================================================== Send and the build

BodyHTML == <<60, 98, 62>>
TxtDomain == <<"x",".","o","r","g">>
TxtSelector == <<"s","1">>
TxtFile == <<"f",".","t","x","t">>
TxtPng == <<"i","m","a","g","e","/","p","n","g">>
TxtLogo == <<"l","o","g","o">>

\* A plain attachment and an inline image.
AttachA == [Filename |-> TxtFile, ContentType |-> <<>>, ContentID |-> <<>>,
            Reader |-> <<1, 2, 3>>]
AttachB == [Filename |-> TxtLogo, ContentType |-> TxtPng, ContentID |-> TxtLogo,
            Reader |-> <<80, 78, 71>>]

\* The DKIM options: none, a complete one, one whose key has no PEM block,
\* one without a domain.
DKIMs ==
  {NoDKIM}
  \cup {[nil |-> FALSE, Domain |-> TxtDomain, Selector |-> TxtSelector, KeyPEM |-> k] :
          k \in {"rsa", "junk"}}
  \cup {[nil |-> FALSE, Domain |-> <<>>, Selector |-> TxtSelector, KeyPEM |-> "rsa"]}

\* Messages with and without each thing Validate looks at.
BuildMessages ==
  [From : {<<>>, MailA},
   To : {<<>>, <<MailA>>}, Cc : {<<>>, <<MailB>>}, Bcc : {<<>>, <<MailC>>},
   Plain : {<<>>, BodyHi}, HTML : {<<>>, BodyHTML}, Attach : {<<>>, <<AttachA>>},
   Headers : {NoHeaders}, Subject : {<<>>}, TrackingID : {<<>>}]

\* Send on a mailer without pool and retries for every message and DKIM
\* option, and on one with pool, retries, timeout and AUTH for a message
\* that builds and for DKIM options that fail.
BuildInit ==
  /\ \/ /\ smtpCfg = [Timeout |-> 1, PoolMaxIdle |-> 0, PoolIdleTTL |-> 0,
                      Auth |-> FALSE]
        /\ sendCfg \in [Backoff : {NoBackoff}, Hooks : {FALSE},
                        DKIM : DKIMs, ListUnsub : {<<>>}]
        /\ pool = NilPool
        /\ msg \in BuildMessages
     \/ /\ smtpCfg = [Timeout |-> 1, PoolMaxIdle |-> 1, PoolIdleTTL |-> 1,
                      Auth |-> TRUE]
        /\ sendCfg \in [Backoff : {ExponentialBackoff(MaxAttempts, 1, BackoffCap, TRUE)},
                        Hooks : {TRUE}, DKIM : DKIMs, ListUnsub : {<<>>}]
        /\ pool = NewConnPool(1, 1, "ok", TRUE, TRUE)
        /\ msg \in {m \in Messages : Len(m.To) > 0}
  /\ mpool = NewSMTPPool(smtpCfg)
  /\ bucket = NewTokenBucket(1, 1)
  /\ conns = <<>>
  /\ ctx = [hasDeadline |-> FALSE, err |-> "none"]
  /\ pc = "idle" /\ attempt = 0 /\ d = 0 /\ err = NilErr /\ result = NilErr
  /\ conn = 0 /\ own = FALSE /\ rcpt = 0 /\ timedOut = FALSE /\ raw = NoRaw
  /\ sends = 0 /\ tries = <<>> /\ log = <<>> /\ wire = <<>> /\ att = NoCalls
  /\ BoIdle /\ CpIdle /\ TbIdle /\ FnIdle

BuildSpec == BuildInit /\ [][Next]_vars

\* What msg lacks, by the three tests in their order.
Lacks ==
  IF msg.From = <<>> THEN TxtMissingFrom
  ELSE IF msg.To = <<>> /\ msg.Cc = <<>> /\ msg.Bcc = <<>> THEN TxtNoRecipients
  ELSE IF msg.Plain = <<>> /\ msg.HTML = <<>> /\ msg.Attach = <<>> THEN TxtNoBody
  ELSE <<>>

\* Send has not got past BuildMIME and nothing of an attempt has happened.
NoAttemptMade ==
  /\ pc \in {"idle", "rate", "build", "done"}
  /\ tries = <<>> /\ att = NoCalls /\ wire = <<>> /\ conn = 0
  /\ conns = <<>> /\ pool.idle = <<>> /\ pool.inUse = 0
  /\ attempt = 0 /\ d = 0
  /\ \A k \in DOMAIN log : log[k].ev \in {"buildStart", "buildDone"}

\* C24: a message is rejected exactly when it has no sender mailbox, or no
\* To, Cc and Bcc entry, or no plain body, HTML body and attachment; BuildMIME
\* then returns the validation error and no payload, and Send returns that
\* error without an attempt.
C24_ValidationRejects ==
  LET b == BuildMIME(msg, sendCfg.ListUnsub, sendCfg.DKIM, sendCfg.Hooks)
  IN /\ Lacks = <<>> => (b.err.nil \/ b.err.text # Lacks)
     /\ Lacks = <<>> => (\A t \in {TxtMissingFrom, TxtNoRecipients, TxtNoBody} :
                           b.err.nil \/ b.err.text # t)
     /\ Lacks # <<>> =>
          /\ b.err = NewErr(Lacks) /\ b.raw = NoPayload
          /\ NoAttemptMade
          /\ pc = "done" => result = NewErr(Lacks)

\* Send has returned "no body or attachments" for a message with a sender and
\* a recipient.
C24_Witness ==
  /\ pc = "done" /\ sends = 1
  /\ msg.From # <<>> /\ msg.Cc # <<>>
  /\ result = NewErr(TxtNoBody)

\* C25: when BuildMIME fails, on validation or on the DKIM signature, Send
\* returns its error with no connection taken from the pool or dialled, the
\* backoff not consulted and no attempt hook called.
C25_BuildFailureIsFinal ==
  LET b == BuildMIME(msg, sendCfg.ListUnsub, sendCfg.DKIM, sendCfg.Hooks)
  IN ~b.err.nil => /\ NoAttemptMade
                   /\ pc = "done" => result = b.err

\* Send has returned the DKIM error on a mailer with a pool, a backoff and
\* hooks: the build hooks were called, nothing else.
C25_Witness ==
  /\ pc = "done" /\ sends = 1
  /\ pool.present /\ sendCfg.Backoff.present /\ sendCfg.Hooks
  /\ Validate(msg).nil
  /\ result = NewErr(TxtDkimIncomplete)
  /\ log = <<HookEvent("buildStart", 0, NilErr),
             HookEvent("buildDone", 0, NewErr(TxtDkimIncomplete))>>

\* ================================================= BuildMIME on its own

TxtUnsub == <<"<","m","a","i","l","t","o",":","u","@","x",">">>
TxtSubject == <<"H","i","\r","\n">>
TxtTrack == <<"t","-","1">>
TxtOwnID == <<"<","o","w","n","@","x",">">>
TxtOwnType == <<"t","e","x","t","/","x","-","o","w","n">>

\* The header maps a caller passes: none, and one that sets fields BuildMIME
\* sets as well.
CallerHeaders ==
  {NoHeaders,
   [k \in {"X-Campaign", "Message-ID", "Content-Type", "From"} |->
      CASE k = "X-Campaign" -> TxtTrack
        [] k = "Message-ID" -> TxtOwnID
        [] k = "Content-Type" -> TxtOwnType
        [] k = "From" -> MailC]}

MimeMessages ==
  [From : {<<>>, MailA},
   To : {<<>>, <<MailA, MailB>>}, Cc : {<<>>}, Bcc : {<<>>, <<MailC>>},
   Plain : {<<>>, BodyHi}, HTML : {<<>>, BodyHTML},
   Attach : {<<>>, <<AttachA>>, <<AttachB, AttachA>>},
   Headers : CallerHeaders, Subject : {<<>>, TxtSubject},
   TrackingID : {<<>>, TxtTrack}]

MimeInit ==
  /\ SendIdle /\ BoIdle /\ CpIdle /\ TbIdle
  /\ pool = NilPool /\ conns = <<>> /\ bucket = NewTokenBucket(1, 1)
  /\ \E m \in MimeMessages, lu \in {<<>>, TxtUnsub}, dk \in DKIMs, hk \in BOOLEAN :
       arg = [m |-> m, listUnsub |-> lu, dkim |-> dk, hooks |-> hk]
  /\ out = <<>>

\* BuildMIME(ctx, arg.m, arg.listUnsub, arg.dkim, hooks) is called and returns.
BuildMIMECall ==
  /\ out = <<>>
  /\ out' = BuildMIME(arg.m, arg.listUnsub, arg.dkim, arg.hooks)
  /\ UNCHANGED <<sendFrame, sharedVars, boVars, cpVars, tbVars, arg>>

MimeSpec == MimeInit /\ [][BuildMIMECall]_vars

\* C26: BuildMIME leaves the caller's header map as it found it, keys and
\* values, whatever the message and the options, when it succeeds and when
\* it fails.
C26_CallerHeadersKept ==
  out # <<>> => out.Headers = arg.m.Headers

\* A build with list-unsubscribe and DKIM on a message that brought its own
\* header map: the payload's headers hold more than the caller's map and
\* another From, and the caller's map is as before.
C26_Witness ==
  /\ out # <<>>
  /\ arg.m.Headers # NoHeaders
  /\ out.err.nil
  /\ arg.listUnsub # <<>> /\ ~arg.dkim.nil
  /\ {"List-Unsubscribe", "DKIM-Signature", "Date", "X-Campaign"}
       \subseteq DOMAIN out.raw.headers
  /\ out.raw.headers["From"] = MailA /\ out.Headers["From"] = MailC

\* A single text part of the given Content-Type holding the encoded body.
IsText(p, ctype, b) ==
  /\ p.ctype = ctype /\ p.cte = "quoted-printable" /\ p.parts = <<>>
  /\ p.body = writeQuotedPrintable(b)

\* C27: the body shape goes by priority: with an attachment multipart/mixed,
\* one part per attachment in list order after a nested multipart/alternative
\* that holds both text parts when there are a plain and an HTML body;
\* else with both bodies multipart/alternative of two parts, plain first;
\* else with an HTML body a single text/html part; else a single text/plain
\* part.
C27_BodyShape ==
  (out # <<>> /\ out.err.nil) =>
    LET m == arg.m
        top == out.raw.body
        n == Len(m.Attach)
        both == m.Plain # <<>> /\ m.HTML # <<>>
    IN /\ out.raw.headers["Content-Type"] = top.ctype
       /\ IF n > 0
          THEN /\ top.ctype = CtMixed
               /\ Len(top.parts) >= n
               /\ \A k \in 1..n :
                    LET p == top.parts[Len(top.parts) - n + k]
                    IN p.cte = "base64" /\ p.body = m.Attach[k].Reader
               /\ both =>
                    /\ Len(top.parts) = n + 1
                    /\ top.parts[1].ctype = CtAlternative
                    /\ Len(top.parts[1].parts) = 2
                    /\ IsText(top.parts[1].parts[1], CtPlain, m.Plain)
                    /\ IsText(top.parts[1].parts[2], CtHTML, m.HTML)
          ELSE IF both
          THEN /\ top.ctype = CtAlternative
               /\ Len(top.parts) = 2
               /\ IsText(top.parts[1], CtPlain, m.Plain)
               /\ IsText(top.parts[2], CtHTML, m.HTML)
          ELSE IF m.HTML # <<>>
          THEN IsText(top, CtHTML, m.HTML)
          ELSE IsText(top, CtPlain, m.Plain)

\* A message with both bodies and two attachments was built: mixed, with the
\* alternative first and the attachments after it.
C27_Witness ==
  /\ out # <<>> /\ out.err.nil
  /\ arg.m.Plain # <<>> /\ arg.m.HTML # <<>> /\ Len(arg.m.Attach) = 2
  /\ out.raw.body.ctype = CtMixed /\ Len(out.raw.body.parts) = 3
  /\ out.raw.body.parts[1].ctype = CtAlternative
  /\ out.raw.body.parts[2].disp = "inline"
  /\ out.raw.body.parts[3].disp = "attachment"

\* ====================================== the quoted-printable encoder alone

\* The bytes bodies are made of: a letter, '=', LF, CR, space, a byte above
\* 126; and the lengths of the runs that bring a line to the limit, with
\* units of one and of three characters.
QPBytes == {97, 61, 10, 13, 32, 200}
QPFillers == {97, 61, 200}
QPRuns == {0, 24, 25, 26, 74, 75, 76, 150}
MaxHead == 1
MaxTail == 2

\* The byte sequences of length n over QPBytes.
QPSeqs(n) == [1..n -> QPBytes]

\* The bodies encoded: a short head, a run of one byte, a short tail.
QPInputs ==
  {hd \o [k \in 1..n |-> f] \o tl :
     hd \in UNION {QPSeqs(j) : j \in 0..MaxHead},
     f \in QPFillers, n \in QPRuns,
     tl \in UNION {QPSeqs(j) : j \in 0..MaxTail}}

QPInit ==
  /\ SendIdle /\ BoIdle /\ CpIdle /\ TbIdle
  /\ pool = NilPool /\ conns = <<>> /\ bucket = NewTokenBucket(1, 1)
  /\ arg \in QPInputs
  /\ out = <<>>

\* writeQuotedPrintable(w, arg) is called; out is what it wrote.
Encode ==
  /\ out = <<>>
  /\ out' = writeQuotedPrintable(arg)
  /\ UNCHANGED <<sendFrame, sharedVars, boVars, cpVars, tbVars, arg>>

QPSpec == QPInit /\ [][Encode]_vars

HexBytes == (48..57) \cup (65..70)

\* A soft line break "=" CR LF starts at position k of w.
SoftBreakAt(w, k) ==
  k + 2 <= Len(w) /\ w[k] = ByteEq /\ w[k + 1] = ByteCR /\ w[k + 2] = ByteLF

\* The encoded width of the longest stretch of b without a newline.
RECURSIVE Widest(_, _, _, _)
Widest(b, i, cur, best) ==
  IF i > Len(b) THEN (IF cur > best THEN cur ELSE best)
  ELSE IF b[i] = ByteLF THEN Widest(b, i + 1, 0, IF cur > best THEN cur ELSE best)
  ELSE IF b[i] = ByteCR THEN Widest(b, i + 1, cur, best)
  ELSE Widest(b, i + 1, cur + (IF b[i] = ByteEq \/ b[i] < 32 \/ b[i] > 126
                                THEN 3 ELSE 1), best)

\* C28: whatever the bytes, no line of the encoding is longer than 76
\* characters before its CRLF, a closing "=" counted; every "=" is followed
\* by its two hex digits or is the soft break itself, so no =XX is cut by a
\* soft break; and a stretch whose encoding is wider than 75 characters has a
\* soft break.
C28_LineLength ==
  out # <<>> =>
    /\ \A i \in 1..(Len(out) - 76) :
         \E k \in i..(i + 76) : out[k] \in {ByteCR, ByteLF}
    /\ \A k \in 1..Len(out) :
         /\ out[k] = ByteCR => (k < Len(out) /\ out[k + 1] = ByteLF)
         /\ out[k] = ByteLF => (k > 1 /\ out[k - 1] = ByteCR)
         /\ out[k] = ByteEq =>
              \/ SoftBreakAt(out, k)
              \/ (k + 2 <= Len(out) /\ out[k + 1] \in HexBytes
                                    /\ out[k + 2] \in HexBytes)
    /\ Widest(arg, 1, 0, 0) > 75 => \E k \in 1..Len(out) : SoftBreakAt(out, k)

\* An encoding with a line of 76 characters: 75 columns that end in an =XX
\* unit, then the soft break, and more after it.
C28_Witness ==
  /\ out # <<>>
  /\ \E k \in 76..(Len(out) - 5) :
       /\ SoftBreakAt(out, k)
       /\ out[k - 3] = ByteEq
       /\ \A j \in (k - 75)..k : out[j] \notin {ByteCR, ByteLF}
       /\ (k = 76 \/ out[k - 76] = ByteLF)

\* The value of a hex digit.
HexVal(h) == IF h >= ByteA THEN h - ByteA + 10 ELSE h - ByteZero

\* From position i to the end of its line, w holds blanks only.
BlankToEOL(w, i) ==
  \E j \in i..Len(w) :
    /\ \A k \in i..j : w[k] \in {ByteSP, 9}
    /\ (j = Len(w) \/ (j + 2 <= Len(w) /\ w[j + 1] = ByteCR /\ w[j + 2] = ByteLF))

\* Quoted-printable decoding (RFC 2045, 6.7): a soft break is dropped, =XX
\* is the byte XX, blanks at the end of a line are dropped, everything else
\* stands for itself.
RECURSIVE qpDec(_, _, _)
qpDec(w, i, acc) ==
  IF i > Len(w) THEN acc
  ELSE IF SoftBreakAt(w, i) THEN qpDec(w, i + 3, acc)
  ELSE IF w[i] = ByteEq /\ i + 2 <= Len(w)
          /\ w[i + 1] \in HexBytes /\ w[i + 2] \in HexBytes
  THEN qpDec(w, i + 3, Append(acc, 16 * HexVal(w[i + 1]) + HexVal(w[i + 2])))
  ELSE IF w[i] \in {ByteSP, 9} /\ BlankToEOL(w, i) THEN qpDec(w, i + 1, acc)
  ELSE qpDec(w, i + 1, Append(acc, w[i]))

\* The decoded body, without the CRLF that closes the encoding.
qpDecode(w) ==
  LET dd == qpDec(w, 1, <<>>)
      n == Len(dd)
  IN IF n >= 2 /\ dd[n - 1] = ByteCR /\ dd[n] = ByteLF
     THEN SubSeq(dd, 1, n - 2) ELSE dd

\* C29: the encoded plain body decodes back to the bytes of the body, for
\* every byte sequence: with CR, bare LF, '=', blanks before a line break,
\* bytes above 126.
C29_RoundTrip ==
  out # <<>> => qpDecode(out) = arg

\* =========================================== the header writer alone

KeyShort == <<"T","o">>
KeyDKIM == <<"D","K","I","M","-","S","i","g","n","a","t","u","r","e">>

\* The lengths of the words of a header value: short ones, ones that fill a
\* line together, ones as long as a line and longer (a base64 signature);
\* and the number of words of a value.
WordLens == {1, 40, 77, 78, 100}
MaxWords == 3

\* A header value: words of the given lengths, with sep between them.
RECURSIVE ValueOf(_, _)
ValueOf(lens, sep) ==
  IF lens = <<>> THEN <<>>
  ELSE [k \in 1..lens[1] |-> "w"]
       \o (IF Len(lens) > 1 THEN sep ELSE <<>>)
       \o ValueOf(Tail(lens), sep)

HeaderValues ==
  {ValueOf(lens, sep) :
     lens \in UNION {[1..n -> WordLens] : n \in 1..MaxWords},
     sep \in {<<" ">>, <<" ", "\t">>}}

\* The header maps written: one entry, or that entry beside a short one.
FoldInit ==
  /\ SendIdle /\ BoIdle /\ CpIdle /\ TbIdle
  /\ pool = NilPool /\ conns = <<>> /\ bucket = NewTokenBucket(1, 1)
  /\ \E key \in {KeyShort, KeyDKIM}, val \in HeaderValues, two \in BOOLEAN :
       arg = {[key |-> key, val |-> val]}
             \cup (IF two THEN {[key |-> <<"X">>, val |-> <<"y">>]} ELSE {})
  /\ out = <<>>

\* writeHeaders(w, arg) is called; range yields the entries in some order.
WriteHeadersCall ==
  /\ out = <<>>
  /\ \E es \in [1..Cardinality(arg) -> arg] :
       /\ \A i, j \in DOMAIN es : es[i] = es[j] => i = j
       /\ out' = writeHeaders(es)
  /\ UNCHANGED <<sendFrame, sharedVars, boVars, cpVars, tbVars, arg>>

FoldSpec == FoldInit /\ [][WriteHeadersCall]_vars

\* C30: every line of the header block, continuation lines included, has at
\* most 78 columns before its CRLF, whatever the key and the value, a value
\* with a word longer than the limit included; CR and LF come as CRLF only;
\* a line that continues a header starts with one space and no second one;
\* the block ends with one empty line.
C30_FoldedLines ==
  out # <<>> =>
    LET n == Len(out)
    IN /\ \A i \in 1..(n - FoldLimit) :
            \E k \in i..(i + FoldLimit) : out[k] \in {"\r", "\n"}
       /\ \A k \in 1..n :
            /\ out[k] = "\r" => (k < n /\ out[k + 1] = "\n")
            /\ out[k] = "\n" => (k > 1 /\ out[k - 1] = "\r")
            /\ (out[k] = " " /\ k > 1 /\ out[k - 1] = "\n") =>
                 (k < n /\ out[k + 1] \notin WhiteSpace)
       /\ n >= 4 /\ SubSeq(out, n - 3, n) = CRLF \o CRLF
       /\ (n >= 6 => SubSeq(out, n - 5, n) # CRLF \o CRLF \o CRLF)

\* ============================================ the DKIM signer alone

\* The blanks of RFC 6376: space and tab.
WSP == {" ", "\t"}

\* compressWSP(b): every run of blanks becomes one space.
RECURSIVE compressFrom(_, _, _, _)
compressFrom(b, i, space, w) ==
  IF i > Len(b) THEN w
  ELSE IF b[i] \in WSP
       THEN compressFrom(b, i + 1, TRUE, IF space THEN w ELSE Append(w, " "))
       ELSE compressFrom(b, i + 1, FALSE, Append(w, b[i]))
compressWSP(b) == compressFrom(b, 1, FALSE, <<>>)

\* strings.ReplaceAll(v, "\r\n", "\n")
ReplaceCRLF(v) ==
  SelectSeq([i \in DOMAIN v |->
               IF v[i] = "\r" /\ i < Len(v) /\ v[i + 1] = "\n" THEN "" ELSE v[i]],
            LAMBDA ch : ch # "")

\* The loop of unfoldHeader over v, at index i.
RECURSIVE unfoldFrom(_, _, _, _)
unfoldFrom(v, i, prevSpace, w) ==
  IF i > Len(v) THEN w
  ELSE IF v[i] = "\n"
       THEN IF i + 1 <= Len(v) /\ v[i + 1] \in WSP
            THEN unfoldFrom(v, i + 2, TRUE,
                            IF prevSpace THEN w ELSE Append(w, " "))
            ELSE unfoldFrom(v, i + 1, prevSpace, w)
  ELSE IF v[i] \in WSP
       THEN unfoldFrom(v, i + 1, TRUE, IF prevSpace THEN w ELSE Append(w, " "))
       ELSE unfoldFrom(v, i + 1, FALSE, Append(w, v[i]))
unfoldHeader(v) == unfoldFrom(ReplaceCRLF(v), 1, FALSE, <<>>)

dkimCanonHeaderRelaxed(name, value) ==
  ToLower(TrimSpace(name)) \o <<":">>
    \o TrimSpace(compressWSP(unfoldHeader(value)))

\* A case-sensitive lookup, which headerLookup is not.
headerLookupExact(h, name) ==
  IF name \in DOMAIN h THEN {name} ELSE {<<>>}

\* headerLookup(h, name): the keys the range over the map can stop at, or the
\* empty string when no key matches.  The order of a range over a map is not
\* fixed, so with two keys that differ in case only either can be returned.
headerLookup(h, name) ==
  LET ks == {k \in DOMAIN h : ToLower(k) = ToLower(name)}
  IN IF ks = {} THEN {<<>>} ELSE ks

\* The list signed when cfg.Headers is empty.
DefaultSigned ==
  << <<"f","r","o","m">>,
     <<"t","o">>,
     <<"s","u","b","j","e","c","t">>,
     <<"d","a","t","e">>,
     <<"m","i","m","e","-","v","e","r","s","i","o","n">>,
     <<"c","o","n","t","e","n","t","-","t","y","p","e">>,
     <<"m","e","s","s","a","g","e","-","i","d">> >>

hlistOf(cfg) == IF Len(cfg.Headers) = 0 THEN DefaultSigned ELSE cfg.Headers

\* The fixed part of the tag list, in the order of the sorted tag names; the
\* digest of the body and the time stamp are not modelled.
TagsBeforeH == <<"a","=","r","s","a","-","s","h","a","2","5","6",";"," ","b","h","=","B","H",";"," ","c","=","r","e","l","a","x","e","d","/","r","e","l","a","x","e","d",";"," ","d","=">>
TagsAfterH == <<";"," ","t","=","0",";"," ","v","=","1">>
PfxDkimLine == <<"D","K","I","M","-","S","i","g","n","a","t","u","r","e",":"," ">>

\* The loop over hlist, with pick[i] the key headerLookup returned for the
\* i-th name, and what BuildDKIMSignature makes of it: the names of h=, the
\* canonical lines, the tag list, and the lines that go into the signature:
\* the signed lines and then the DKIM-Signature line with an empty b=, which
\* is here as it is before dkimCanonLine and the hash are applied to it.
RECURSIVE signedFrom(_, _, _, _, _)
signedFrom(h, pick, i, names, lines) ==
  IF i > Len(pick) THEN [names |-> names, lines |-> lines]
  ELSE IF pick[i] = <<>> THEN signedFrom(h, pick, i + 1, names, lines)
  ELSE signedFrom(h, pick, i + 1,
                  Append(names, ToLower(pick[i])),
                  Append(lines, dkimCanonHeaderRelaxed(pick[i], h[pick[i]])))

dkimSigned(h, cfg, pick) ==
  LET s    == signedFrom(h, pick, 1, <<>>, <<>>)
      tags == TagsBeforeH \o cfg.Domain \o <<";", " ", "h", "=">>
                \o Join(s.names, <<":">>) \o <<";", " ", "s", "=">>
                \o cfg.Selector \o TagsAfterH
  IN [names  |-> s.names,
      lines  |-> s.lines,
      tags   |-> tags,
      toSign |-> Append(s.lines, PfxDkimLine \o tags \o <<";", " ", "b", "=">>)]

KeyFrom == <<"F","r","o","m">>
KeyTo == <<"T","o">>
KeySubject == <<"S","u","b","j","e","c","t">>
KeySubjectLow == <<"s","u","b","j","e","c","t">>
KeyDate == <<"D","a","t","e">>
KeyXId == <<"X","-","I","d">>

\* The value each header has in the maps signed.
ValueAt ==
  (KeyFrom :> <<"a","@","x">>) @@ (KeyTo :> <<"b","@","y">>)
  @@ (KeySubject :> <<"H","i"," "," ","t","h","e","r","e"," ">>)
  @@ (KeySubjectLow :> <<"l","o","w">>)
  @@ (KeyDate :> <<"T","u","e",",","\r","\n"," ","0","3">>) @@ (KeyXId :> <<"7">>)

DkimMaps == {[k \in ks |-> ValueAt[k]] : ks \in SUBSET DOMAIN ValueAt}

\* The names a configuration can list, and the longest list.
DkimNames == {<<"f","r","o","m">>, <<"S","U","B","J","E","C","T">>, <<"c","c">>, <<"x","-","i","d">>}
MaxListed == 3
DkimLists == UNION {[1..n -> DkimNames] : n \in 0..MaxListed}

\* What the lookups of the names of l, one after the other, can return.
RECURSIVE Lookups(_, _)
Lookups(h, l) ==
  IF l = <<>> THEN {<<>>}
  ELSE {<<k>> \o p : k \in headerLookup(h, l[1]), p \in Lookups(h, Tail(l))}

DkimInit ==
  /\ SendIdle /\ BoIdle /\ CpIdle /\ TbIdle
  /\ pool = NilPool /\ conns = <<>> /\ bucket = NewTokenBucket(1, 1)
  /\ \E h \in DkimMaps, l \in DkimLists :
       arg = [headers |-> h,
              cfg |-> [nil |-> FALSE, Domain |-> TxtDomain,
                       Selector |-> TxtSelector, KeyPEM |-> "rsa",
                       Headers |-> l]]
  /\ out = <<>>

\* BuildDKIMSignature(arg.headers, body, arg.cfg) with a complete
\* configuration and a key that parses.
BuildDKIMSignatureCall ==
  /\ out = <<>>
  /\ \E pick \in Lookups(arg.headers, hlistOf(arg.cfg)) :
       out' = dkimSigned(arg.headers, arg.cfg, pick)
  /\ UNCHANGED <<sendFrame, sharedVars, boVars, cpVars, tbVars, arg>>

DkimSpec == DkimInit /\ [][BuildDKIMSignatureCall]_vars

\* Whether the message has a header of this name, in any case.
Present(h, name) == \E k \in DOMAIN h : ToLower(k) = ToLower(name)

\* C31: the names of h= are the lower-cased names of the configured list (of
\* the default list when none is configured) that the message has, in the
\* order of the list and with the absent ones skipped; the signed lines are
\* the canonical lines of those headers in the same order, and they come
\* first, in that order, in the input of the signature.
C31_SignedHeaders ==
  out # <<>> =>
    LET h    == arg.headers
        l    == IF arg.cfg.Headers = <<>> THEN DefaultSigned ELSE arg.cfg.Headers
        want == SelectSeq(l, LAMBDA n : Present(h, n))
    IN /\ out.names = [i \in 1..Len(want) |-> ToLower(want[i])]
       /\ Contains(out.tags,
                   <<"h", "=">> \o Join(out.names, <<":">>) \o <<";">>)
       /\ Len(out.lines) = Len(want)
       /\ \A i \in 1..Len(want) :
            \E k \in DOMAIN h :
              /\ ToLower(k) = ToLower(want[i])
              /\ out.lines[i] = dkimCanonHeaderRelaxed(k, h[k])
       /\ SubSeq(out.toSign, 1, Len(want)) = out.lines
       /\ Len(out.toSign) = Len(want) + 1

\* A configured list with an absent name before two present ones, matched in
\* another case.
C31_Witness ==
  /\ out # <<>>
  /\ arg.cfg.Headers = <<<<"c","c">>, <<"S","U","B","J","E","C","T">>, <<"f","r","o","m">>>>
  /\ DOMAIN arg.headers = {KeyFrom, KeySubject, KeyDate}
  /\ out.names = <<<<"s","u","b","j","e","c","t">>, <<"f","r","o","m">>>>

\* ================================= relaxed body canonicalization alone

\* splitCRLF(b): the loop at index i, with start the start of the open line.
RECURSIVE splitFrom(_, _, _, _)
splitFrom(b, i, start, lines) ==
  IF i > Len(b)
  THEN IF start <= Len(b) THEN Append(lines, SubSeq(b, start, Len(b))) ELSE lines
  ELSE IF i + 1 <= Len(b) /\ b[i] = "\r" /\ b[i + 1] = "\n"
       THEN splitFrom(b, i + 2, i + 2, Append(lines, SubSeq(b, start, i + 1)))
       ELSE splitFrom(b, i + 1, start, lines)
splitCRLF(b) ==
  LET lines == splitFrom(b, 1, 1, <<>>)
  IN IF Len(lines) = 0 THEN << <<>> >> ELSE lines

\* bytes.TrimSuffix(b, suffix) for a suffix of one byte.
TrimSuffix(b, c) ==
  IF b # <<>> /\ b[Len(b)] = c THEN SubSeq(b, 1, Len(b) - 1) ELSE b

trimCRLF(b) == TrimSuffix(TrimSuffix(b, "\n"), "\r")

\* A stripTrailingWSP that strips nothing.
stripNothing(b) == b

RECURSIVE stripTrailingWSP(_)
stripTrailingWSP(b) ==
  IF b # <<>> /\ b[Len(b)] \in WSP
  THEN stripTrailingWSP(SubSeq(b, 1, Len(b) - 1))
  ELSE b

\* The first loop of dkimCanonicalizeBodyRelaxed: every line trimmed,
\* stripped, compressed and written with CRLF.
RECURSIVE canonLines(_)
canonLines(lines) ==
  IF lines = <<>> THEN <<>>
  ELSE compressWSP(stripTrailingWSP(trimCRLF(lines[1]))) \o CRLF
       \o canonLines(Tail(lines))

\* The second loop: trailing empty lines go.
RECURSIVE dropEmptyTail(_)
dropEmptyTail(res) ==
  IF Len(res) >= 4 /\ SubSeq(res, Len(res) - 3, Len(res)) = CRLF \o CRLF
  THEN dropEmptyTail(SubSeq(res, 1, Len(res) - 2))
  ELSE res

dkimCanonicalizeBodyRelaxed(b) == dropEmptyTail(canonLines(splitCRLF(b)))

\* The bytes of the bodies canonicalized, and the longest body.
CanonBytes == {"a", " ", "\t", "\r", "\n"}
MaxBody == 5

CanonInit ==
  /\ SendIdle /\ BoIdle /\ CpIdle /\ TbIdle
  /\ pool = NilPool /\ conns = <<>> /\ bucket = NewTokenBucket(1, 1)
  /\ arg \in UNION {[1..n -> CanonBytes] : n \in 0..MaxBody}
  /\ out = <<>>

\* out is what dkimCanonicalizeBodyRelaxed(arg) returns; it is never empty.
Canonicalize ==
  /\ out = <<>>
  /\ out' = dkimCanonicalizeBodyRelaxed(arg)
  /\ UNCHANGED <<sendFrame, sharedVars, boVars, cpVars, tbVars, arg>>

CanonSpec == CanonInit /\ [][Canonicalize]_vars

\* C32: the canonical body ends with CRLF and not with two of them, no space
\* or tab stands before a CRLF, no two spaces or tabs stand side by side,
\* the empty body gives
\* CRLF alone, and the canonical form of the result is the result.
C32_RelaxedBody ==
  out # <<>> =>
    LET n == Len(out)
    IN /\ n >= 2 /\ SubSeq(out, n - 1, n) = CRLF
       /\ ~(n >= 4 /\ SubSeq(out, n - 3, n) = CRLF \o CRLF)
       /\ \A k \in 1..(n - 2) :
            /\ (out[k + 1] = "\r" /\ out[k + 2] = "\n") => out[k] \notin WSP
            /\ ~(out[k] \in WSP /\ out[k + 1] \in WSP)
       /\ (arg = <<>> => out = CRLF)
       /\ dkimCanonicalizeBodyRelaxed(out) = out

\* A body of one line without CRLF, with a run of blanks inside the line and
\* a blank at its end.
C32_Witness ==
  /\ arg = <<"a", " ", "\t", "a", " ">>
  /\ out = <<"a", " ", "a", "\r", "\n">>

\* ================================================ the hooks of the build

\* C33: with hooks supplied, every BuildMIME call makes two hook calls, the
\* build-start hook and then the build-done hook, the latter with the byte
\* count of the payload when the build succeeds and with the error BuildMIME
\* returns when it fails, a validation failure included.
C33_BuildHooksWrap ==
  (out # <<>> /\ arg.hooks) =>
    /\ Len(out.hooks) = 2
    /\ out.hooks[1].ev = "buildStart"
    /\ out.hooks[2].ev = "buildDone"
    /\ out.hooks[2].err = out.err
    /\ (out.err.nil => out.hooks[2].size = "out.Len()")

\* ============================================== the transport and its pool

\* C34: the in-use counter of the pool is the number of connections Get has
\* handed out and Put has not got back, which for the one Send running is 1
\* while an attempt holds a connection that came from Get and 0 otherwise;
\* so it is never negative.  This also with a pool that has no create
\* function, where the attempt dials its own connection and puts it.
C34_InUseCounts ==
  /\ pool.inUse = (IF InAttempt /\ conn # 0 /\ ~own THEN 1 ELSE 0)
  /\ pool.inUse >= 0

\* The dialogue w has left a mail transaction open: a MAIL FROM was accepted
\* and no end of data followed it.
TxOpen(w) ==
  \E k \in DOMAIN w :
    /\ w[k].cmd = "MAIL" /\ w[k].ok
    /\ \A j \in (k + 1)..Len(w) : w[j].cmd # "END"

\* C35: a connection the attempt has given back, and that the pool keeps
\* idle for the next Get, has no mail transaction open: the attempt that
\* used it did not stop between an accepted MAIL FROM and the end of DATA.
C35_PooledIsClean ==
  (conn # 0 /\ IdleAt(conn) # {}) => ~TxOpen(wire)

\* C36: an attempt whose first command is AUTH (credentials are configured
\* and the server advertises AUTH) never starts on the connection on which
\* the attempt before it has authenticated: a connection that comes back from
\* the pool is not sent AUTH a second time.
C36_AuthOnce ==
  [][~(/\ pc = "try" /\ pc' = "auth"
       /\ conn # 0 /\ conn' = conn
       /\ wire # <<>> /\ wire[1].cmd = "AUTH" /\ wire[1].ok)]_vars

\* C37: the step that ends an attempt hands a result to the retry loop of
\* Send, whatever the configuration, a context without deadline and a zero
\* Timeout included: Send is then done or back at the head of the loop, and
\* with hooks the attempt-done hook has been called.
C37_AttemptReturns ==
  [][(InAttempt /\ ~InAttempt') =>
       /\ pc' \in {"loop", "done"}
       /\ (sendCfg.Hooks =>
             /\ Len(log') = Len(log) + 1
             /\ log'[Len(log')].ev = "attemptDone")]_vars

\* =================================================== the attempt hooks

\* The calls of the attempt hooks so far, in order.
AttemptEvents ==
  SelectSeq(log, LAMBDA e : e.ev \in {"attemptStart", "attemptDone"})

\* C38: the calls of the attempt hooks come in pairs: an attempt-start with
\* index i, then the attempt-done with the same index i, and only then the
\* next attempt-start; when Send is over, by a return or otherwise, no
\* attempt-start is left without its attempt-done; and the attempt-done of a
\* Send that returns nil carries a nil error.
C38_AttemptHooksPaired ==
  LET ev == AttemptEvents
  IN /\ \A k \in DOMAIN ev :
          IF k % 2 = 1 THEN ev[k].ev = "attemptStart"
          ELSE /\ ev[k].ev = "attemptDone"
               /\ ev[k].i = ev[k - 1].i
     /\ (pc \in {"done", "panic"} => Len(ev) % 2 = 0)
     /\ (pc = "done" /\ result.nil /\ ev # <<>>) => ev[Len(ev)].err.nil

\* =================================================== one gate, one payload

\* An attempt of the running Send has put its payload on the wire.
Transmitted(w) == \E k \in DOMAIN w : w[k].cmd = "WRITE"

\* C39: one Send passes the rate limiter once and builds the payload once,
\* both before its first attempt: the limiter and BuildMIME are entered from
\* the start of Send only, never from the loop; the bucket gives no token
\* away once an attempt has begun; the payload is the one built when no
\* attempt had begun and stays as built until Send is called again; and every
\* attempt writes exactly that payload.
C39_OneGateOneBuild ==
  [][/\ (pc' = "rate" /\ pc # "rate") => pc \in {"idle", "done"}
     /\ (pc' = "build" /\ pc # "build") => pc \in {"idle", "done", "rate"}
     /\ pc \in {"rate", "build"} => tries = <<>>
     /\ bucket' # bucket => (pc = "rate" /\ tries = <<>>)
     /\ raw' # raw =>
          \/ pc = "build" /\ raw = NoRaw /\ raw'.at = 0
          \/ pc \in {"idle", "done"} /\ raw' = NoRaw
     /\ \A k \in DOMAIN wire' :
          wire'[k].cmd = "WRITE" =>
            /\ wire'[k].arg = raw /\ raw' = raw
            /\ ~raw.payload.nil /\ raw.at = 0]_vars

\* The second attempt of a Send has written the payload that was built
\* before the first.
C39_Witness ==
  /\ Len(tries) = 2
  /\ Transmitted(wire)
  /\ ~raw.payload.nil /\ raw.at = 0

\* =================================================== the envelope has a recipient

\* C40: an attempt that issues DATA has had a RCPT TO accepted before it, and
\* the recipient list an attempt works with is never empty, whatever message
\* passed validation.
C40_DataHasRecipient ==
  /\ \A k \in DOMAIN wire :
       wire[k].cmd = "DATA" =>
         \E j \in 1..(k - 1) : wire[j].cmd = "RCPT" /\ wire[j].ok
  /\ InAttempt => RecipientList(msg) # <<>>

====
